---- MODULE Spec2Model ----
(***************************************************************************)
(* A model of the defined-item state machine of wxt/storage                *)
(* (packages/wxt/src/storage.ts): one item returned by defineItem, the     *)
(* storage area behind it (the value key and its shadow metadata key),     *)
(* the definition-time migration, the init mutex, and the item's           *)
(* operations called by concurrent callers.                                *)
(*                                                                         *)
(* Every backend call (browser.storage.<area>.get/set/remove) is one       *)
(* atomic step; the code between two awaits is part of the step that       *)
(* follows the first await.                                                *)
(***************************************************************************)
EXTENDS Integers, Sequences, FiniteSets, TLC

\* ------------------------------------------------------------------ bounds
\* Versions range over 1..MaxVersion (stored and target versions).
MaxVersion == 3
\* Total number of calls the callers issue on the item in one behaviour.
MaxCalls == 2

\* ------------------------------------------------------------------ values
\* null / undefined / an absent key: the code treats them alike (== null, ??).
Null == 0
\* Non-null JSON values, abstracted to 1..6.
Values == 1..6
\* The callers of the item's methods.
Callers == {"c1", "c2"}
\* The definition itself (migrationsDone and the then(getOrInitValue) chain).
Def == "def"
Procs == {Def} \cup Callers

\* The content of the shadow key: absent, or a plain object with the version
\* field v and one other field a (0 = the field is not in the object).
NoMeta == [shape |-> "absent", v |-> 0, a |-> 0]
MetaObj(v, a) == [shape |-> "object", v |-> v, a |-> a]
Metas == {NoMeta} \cup {MetaObj(v, a) : v \in 0..MaxVersion, a \in 0..1}

\* What a registered migration function does: "absent" = no function
\* registered for the version, "fn" = returns a new value, "null" = returns
\* null/undefined, "throw" = raises.
MigKinds == {"absent", "fn", "null", "throw"}

VARIABLES
  cfg,        \* the options given to defineItem (fixed for a behaviour)
  store,      \* the storage area: [value, meta] at driverKey and driverKey$
  store0,     \* history: the storage area when defineItem was called
  called,     \* history: the method calls issued so far, [name, arg]
  migDone,    \* has the migrationsDone promise resolved
  migLogged,  \* has logger.error("Migration failed ...") been called
  mutexQ,     \* initMutex: the holder (head) and the waiters, in FIFO order
  pc,         \* each process's position
  op,         \* the operation each process is running and its argument
  loc,        \* each process's local variables
  last,       \* the outcome of the call that finished last
  initCalls,  \* how many times opts.init has been invoked
  initWrites, \* how many driver.setItem calls getOrInitValue has made
  nCalls,     \* how many calls the callers have issued
  areas,      \* browser.storage: for each area and key, [value, meta]
  areas0,     \* history: the areas when the call in flight was made
  call,       \* the storage call in flight, with its locals
  ret,        \* the outcome of the storage call that returned last
  kCalls,     \* how many storage calls have been made
  input,      \* the argument of the batched call the caller makes
  listeners,  \* the listeners created by watch, in order: the area and key
              \* of each, and whether its subscription has been ended
  onChanged,  \* per area, the listeners registered with area.onChanged
  watchListeners, \* per area, the driver's watchListeners set
  events,     \* the change notifications the backend has yet to dispatch
  fired       \* the last notification dispatched, the listeners that ran on
              \* it and the callbacks they invoked

\* The variables of one defined item, and those of the storage object.
itemVars == <<cfg, store, store0, called, migDone, migLogged, mutexQ, pc, op, loc,
              last, initCalls, initWrites, nCalls>>
storageVars == <<areas, areas0, call, ret, kCalls, input>>
watchVars == <<listeners, onChanged, watchListeners, events, fired>>
vars == <<itemVars, storageVars, watchVars>>

\* ------------------------------------------------------ pure helpers
\* getValueOrFallback: value ?? fallback ?? null
getValueOrFallback(value, fallback) ==
  IF value \notin {-1, Null} THEN value
  ELSE IF fallback \notin {-1, Null} THEN fallback ELSE Null

\* A getMetaValue that gives {} for everything but a plain object.
getMetaValueOrEmpty(properties) ==
  IF properties.shape = "object" THEN properties ELSE MetaObj(0, 0)

\* getMetaValue:
\*   typeof properties === 'object' && !Array.isArray(properties)
\*     ? properties : {}
\* A plain object is kept; undefined (an absent key), a primitive and an
\* array become {}. typeof null is 'object' too, and null is no array: a
\* stored null is returned as it is.
getMetaValue(properties) ==
  IF properties.shape \in {"object", "null"} THEN properties ELSE MetaObj(0, 0)

\* A migrate() that takes every stored value for an unversioned one.
CurrentVersionForgotten(meta) == 1

\* meta?.v ?? 1
CurrentVersion(meta) ==
  IF meta.shape = "object" /\ meta.v # 0 THEN meta.v ELSE 1

\* A commit that forgets to record the new version.
WithVersionForgotten(meta, targetVersion) ==
  IF meta.shape = "object" THEN meta ELSE MetaObj(0, 0)

\* { ...meta, v: targetVersion }
WithVersion(meta, targetVersion) ==
  IF meta.shape = "object" THEN [meta EXCEPT !.v = targetVersion]
  ELSE MetaObj(targetVersion, 0)

\* The versions to run, newest first.
MigrationsToRunDescending(currentVersion, targetVersion) ==
  [i \in 1..(targetVersion - currentVersion) |-> targetVersion - i + 1]

\* Array.from({ length: target - current }, (_, i) => current + i + 1)
MigrationsToRun(currentVersion, targetVersion) ==
  [i \in 1..(targetVersion - currentVersion) |-> currentVersion + i]

\* The registered migration function for a version, applied to a value.
\* Two different functions, so that the order of application shows.
MigrationFn(version, x) ==
  IF version % 2 = 0 THEN (2 * x) % 7 ELSE (x % 6) + 1

\* A loop that catches what a migration function raises and goes on.
MigrateStepSwallowing(migrations, acc, version) ==
  CASE migrations[version] = "fn" ->
         [acc EXCEPT !.val = MigrationFn(version, acc.val),
                     !.ran = Append(acc.ran, version)]
    [] migrations[version] \in {"null", "throw"} ->
         [acc EXCEPT !.ran = Append(acc.ran, version)]
    [] OTHER -> acc

\* One turn of the migration loop:
\*   migratedValue = (await migrations?.[v]?.(migratedValue)) ?? migratedValue
\* on the running record [ok, val, ran]; ran lists the versions whose
\* function was invoked.
MigrateStep(migrations, acc, version) ==
  IF ~acc.ok THEN acc
  ELSE CASE migrations[version] = "absent" -> acc
         [] migrations[version] = "fn" ->
              [acc EXCEPT !.val = MigrationFn(version, acc.val),
                          !.ran = Append(acc.ran, version)]
         [] migrations[version] = "null" ->
              [acc EXCEPT !.ran = Append(acc.ran, version)]
         [] migrations[version] = "throw" ->
              [acc EXCEPT !.ok = FALSE, !.ran = Append(acc.ran, version)]

\* for (const migrateToVersion of migrationsToRun) { ... }
RECURSIVE MigrateLoop(_, _, _)
MigrateLoop(migrations, toRun, acc) ==
  IF toRun = <<>> THEN acc
  ELSE MigrateLoop(migrations, Tail(toRun),
                   MigrateStep(migrations, acc, Head(toRun)))

\* ------------------------------------------------------ configurations
\* opts.init returns the item's initial value.
InitResults == {3}
\* opts.fallback ?? opts.defaultValue ?? null
Fallbacks == {Null, 4}

\* The options of defineItem: version (targetVersion), migrations (hasMigs is
\* opts.migrations != null; migs gives what is registered for each version),
\* init and fallback. version >= 1 is enforced by defineItem itself. getValue
\* of an item with init never consults the fallback.
ConfigsOver(kinds) ==
  { c \in [target : 1..MaxVersion, hasMigs : BOOLEAN,
           migs : [2..MaxVersion -> kinds \cup {"absent"}],
           hasInit : BOOLEAN, initRes : InitResults, fallback : Fallbacks] :
      /\ ~c.hasMigs => \A v \in 2..MaxVersion : c.migs[v] = "absent"
      /\ c.hasInit => c.fallback = Null }

\* ------------------------------------------------------ process state
NoLoc == [val |-> Null, meta |-> NoMeta, mval |-> Null, ran |-> <<>>]
NoArg == [val |-> Null, flag |-> FALSE, fields |-> {}]
NoOp == [name |-> "none", arg |-> NoArg]
NoRes == [proc |-> "none", op |-> "none", out |-> "none", val |-> Null,
          meta |-> NoMeta, ran |-> <<>>, err |-> "none"]

\* The state right after defineItem returned.
\* With migrations configured, migrate() has been called and its backend read
\* is in flight. Otherwise migrationsDone is Promise.resolve(), and the
\* then(getOrInitValue) registered on it runs before any continuation of a
\* method called later: the definition is first in the mutex queue.
InitOver(configs, stores) ==
  /\ cfg \in configs
  /\ store \in stores
  /\ store0 = store
  /\ called = {}
  /\ migDone = ~cfg.hasMigs
  /\ migLogged = "none"
  /\ mutexQ = IF cfg.hasMigs THEN <<>> ELSE <<Def>>
  /\ pc = [p \in Procs |->
             IF p = Def THEN (IF cfg.hasMigs THEN "mig_read" ELSE "goi_read")
             ELSE "idle"]
  /\ op = [p \in Procs |->
             IF p = Def
             THEN [name |-> IF cfg.hasMigs THEN "migrate" ELSE "getOrInitValue",
                   arg |-> NoArg]
             ELSE NoOp]
  /\ loc = [p \in Procs |-> NoLoc]
  /\ last = NoRes
  /\ initCalls = 0
  /\ initWrites = 0
  /\ nCalls = 0
  /\ areas = <<>> /\ areas0 = <<>> /\ call = <<>> /\ ret = <<>> /\ kCalls = 0
  /\ input = <<>>
  /\ listeners = <<>> /\ onChanged = <<>> /\ watchListeners = <<>>
  /\ events = <<>> /\ fired = <<>>

\* migrationsDone without the catch: a failed migrate() leaves the promise
\* unresolved for everyone who awaits it, and the then-callback never runs.
ResolveUnlessFailed(r) ==
  /\ migDone' = (r.out # "error")
  /\ migLogged' = "none"
  /\ mutexQ' = IF r.out # "error" THEN Append(mutexQ, Def) ELSE mutexQ
  /\ pc' = [pc EXCEPT ![Def] = IF r.out # "error" THEN "goi_read" ELSE "done"]
  /\ op' = [op EXCEPT ![Def] = IF r.out # "error"
                               THEN [name |-> "getOrInitValue", arg |-> NoArg]
                               ELSE NoOp]

\* const migrationsDone = opts?.migrations == null ? Promise.resolve()
\*   : migrate().catch((err) => { logger.error(...) });
\* migrationsDone.then(getOrInitValue);
\* When the definition's migrate() settles, with r, the catch handler logs a
\* failure, migrationsDone resolves either way, and the then-callback, which
\* was registered first, calls getOrInitValue: the definition queues on the
\* mutex before any gated call continues. All of it runs in the microtasks of
\* the step that settled migrate().
ResolveMigrationsDone(r) ==
  /\ migDone' = TRUE
  /\ migLogged' = IF r.out = "error" THEN r.err ELSE "none"
  /\ mutexQ' = Append(mutexQ, Def)
  /\ pc' = [pc EXCEPT ![Def] = "goi_read"]
  /\ op' = [op EXCEPT ![Def] = [name |-> "getOrInitValue", arg |-> NoArg]]

\* A call returns (or throws) to its caller; a call that ran inside
\* initMutex.runExclusive releases the mutex.
Return(p) ==
  /\ pc' = [pc EXCEPT ![p] = IF p = Def THEN "done" ELSE "idle"]
  /\ op' = [op EXCEPT ![p] = NoOp]
  /\ mutexQ' = IF pc[p] \in {"goi_read", "goi_write"}
               THEN SelectSeq(mutexQ, LAMBDA q : q # p) ELSE mutexQ
  /\ UNCHANGED <<migDone, migLogged>>

Finish(p, r) ==
  /\ last' = [r EXCEPT !.proc = p, !.op = op[p].name]
  /\ loc' = [loc EXCEPT ![p] = NoLoc]
  /\ IF p = Def /\ op[p].name = "migrate"
     THEN ResolveMigrationsDone(r)
     ELSE Return(p)

Goto(p, label) ==
  /\ pc' = [pc EXCEPT ![p] = label]
  /\ UNCHANGED <<op, last, migDone, migLogged>>

\* ------------------------------------------------------ migrate()
\* migrate() without the downgrade guard.
MigratePlanUnguarded(value, meta) ==
  LET currentVersion == CurrentVersion(meta)
      acc == MigrateLoop(cfg.migs,
                         MigrationsToRun(currentVersion, cfg.target),
                         [ok |-> TRUE, val |-> value, ran |-> <<>>])
  IN  IF value = Null THEN [out |-> "return", val |-> Null, ran |-> <<>>]
      ELSE IF ~acc.ok THEN [out |-> "fn", val |-> Null, ran |-> acc.ran]
      ELSE [out |-> "commit", val |-> acc.val, ran |-> acc.ran]

\* What migrate() does with what it read: if (value == null) return; the
\* downgrade guard; the migration loop. The result is the outcome, and for
\* "commit" the migrated value to write.
MigratePlan(value, meta) ==
  LET currentVersion == CurrentVersion(meta)
      acc == MigrateLoop(cfg.migs,
                         MigrationsToRun(currentVersion, cfg.target),
                         [ok |-> TRUE, val |-> value, ran |-> <<>>])
  IN  IF value = Null THEN [out |-> "return", val |-> Null, ran |-> <<>>]
      ELSE IF currentVersion > cfg.target
      THEN [out |-> "downgrade", val |-> Null, ran |-> <<>>]
      ELSE IF ~acc.ok THEN [out |-> "fn", val |-> Null, ran |-> acc.ran]
      ELSE [out |-> "commit", val |-> acc.val, ran |-> acc.ran]

\* const [{ value }, { value: meta }] = await driver.getItems([key, metaKey])
\* One backend read of both keys; then the guards and the loop, up to the
\* await of driver.setItems.
MigrateRead(p) ==
  /\ pc[p] = "mig_read"
  /\ LET plan == MigratePlan(store.value, store.meta) IN
       CASE plan.out = "return" -> Finish(p, [NoRes EXCEPT !.out = "ok"])
         [] plan.out \in {"downgrade", "fn"} ->
              Finish(p, [NoRes EXCEPT !.out = "error", !.err = plan.out,
                                      !.ran = plan.ran])
         [] plan.out = "commit" ->
              /\ loc' = [loc EXCEPT ![p] = [val |-> store.value,
                                            meta |-> store.meta,
                                            mval |-> plan.val,
                                            ran |-> plan.ran]]
              /\ Goto(p, "mig_commit")
              /\ UNCHANGED mutexQ
  /\ UNCHANGED <<storageVars, watchVars, cfg, store0, called, store, initCalls, initWrites, nCalls>>

\* A commit that writes the value and leaves the metadata for a later call.
DriverSetItemsValueOnly(st, value, meta) == [st EXCEPT !.value = value]

\* driver.setItems: one backend set call carrying both keys.
DriverSetItems(st, value, meta) == [value |-> value, meta |-> meta]

\* await driver.setItems([{ key, value: migratedValue },
\*                        { key: metaKey, value: { ...meta, v: targetVersion } }])
\* The backend may reject the call (the commit write fails), and then nothing
\* is written.
MigrateCommit(p) ==
  /\ pc[p] = "mig_commit"
  /\ \E ok \in BOOLEAN :
       IF ok
       THEN /\ store' = DriverSetItems(store, loc[p].mval,
                                       WithVersion(loc[p].meta, cfg.target))
            /\ Finish(p, [NoRes EXCEPT !.out = "ok", !.val = loc[p].mval,
                                       !.ran = loc[p].ran])
       ELSE /\ store' = store
            /\ Finish(p, [NoRes EXCEPT !.out = "error", !.err = "commit",
                                       !.ran = loc[p].ran])
  /\ UNCHANGED <<storageVars, watchVars, cfg, store0, called, initCalls, initWrites, nCalls>>

\* ------------------------------------------------------ getOrInitValue
\* getOrInitValue without the mutex.
HoldsMutexAlways(p) == TRUE

\* initMutex.runExclusive(callback): the callbacks run one at a time, in the
\* order they asked; the head of the queue holds the mutex.
HoldsMutex(p) == mutexQ # <<>> /\ Head(mutexQ) = p

\* An initializer that runs whether or not a value is stored.
ShouldInitWhenever(value) == cfg.hasInit

\* Don't init value if it already exists or the init function isn't provided:
\*   if (value != null || opts?.init == null) return value;
ShouldInit(value) == ~(value # Null \/ ~cfg.hasInit)

\*   const value = await driver.getItem(driverKey);
\*   if (value != null || opts?.init == null) return value;
\*   const newValue = await opts.init();
GetOrInitRead(p) ==
  /\ pc[p] = "goi_read"
  /\ HoldsMutex(p)
  /\ IF ~ShouldInit(store.value)
     THEN /\ Finish(p, [NoRes EXCEPT !.out = "ok", !.val = store.value])
          /\ UNCHANGED initCalls
     ELSE /\ initCalls' = initCalls + 1
          /\ loc' = [loc EXCEPT ![p].mval = cfg.initRes]
          /\ Goto(p, "goi_write")
          /\ UNCHANGED mutexQ
  /\ UNCHANGED <<storageVars, watchVars, cfg, store0, called, store, initWrites, nCalls>>

\* driver.setItem: a null value removes the key, any other value is set.
DriverSetItem(st, value) == [st EXCEPT !.value = value]

\*   await driver.setItem(driverKey, newValue); return newValue;
GetOrInitWrite(p) ==
  /\ pc[p] = "goi_write"
  /\ store' = DriverSetItem(store, loc[p].mval)
  /\ initWrites' = initWrites + 1
  /\ Finish(p, [NoRes EXCEPT !.out = "ok", !.val = loc[p].mval])
  /\ UNCHANGED <<storageVars, watchVars, cfg, store0, called, initCalls, nCalls>>

\* ------------------------------------------------------ the item's methods
\* The values a caller passes to setValue, the fields it names in setMeta and
\* removeMeta.
SetValues == {Null, 2}
Args ==
  [getValue |-> {NoArg},
   getMeta |-> {NoArg},
   setValue |-> {[NoArg EXCEPT !.val = x] : x \in SetValues},
   setMeta |-> {[NoArg EXCEPT !.fields = {"a"}, !.val = x] : x \in {Null, 1}},
   removeValue |-> {[NoArg EXCEPT !.flag = b] : b \in BOOLEAN},
   removeMeta |-> {NoArg, [NoArg EXCEPT !.flag = TRUE, !.fields = {"a"}]},
   migrate |-> {NoArg}]
GatedOps == {"getValue", "getMeta", "setValue", "setMeta", "removeValue",
             "removeMeta"}

\* A method that does not await migrationsDone.
AwaitNothing == TRUE

\* The await of the gate: the call goes on only once the promise resolved.
AwaitMigrationsDone == migDone

\* Methods that run migrate() again when the definition's migration failed.
FirstStepRetrying(o) ==
  IF migLogged # "none" THEN "mig_read"
  ELSE CASE o.name = "getValue" -> IF cfg.hasInit THEN "goi_read" ELSE "get_item"
         [] o.name = "getMeta" -> "get_meta"
         [] o.name = "setValue" -> "set_item"
         [] o.name = "setMeta" -> "set_meta_read"
         [] o.name = "removeValue" -> "remove_item"
         [] o.name = "removeMeta" ->
              IF o.arg.flag THEN "remove_meta_read" ELSE "remove_meta_key"

\* Where each gated method goes after the gate.
FirstStep(o) ==
  CASE o.name = "getValue" -> IF cfg.hasInit THEN "goi_read" ELSE "get_item"
    [] o.name = "getMeta" -> "get_meta"
    [] o.name = "setValue" -> "set_item"
    [] o.name = "setMeta" -> "set_meta_read"
    [] o.name = "removeValue" -> "remove_item"
    [] o.name = "removeMeta" ->
         IF o.arg.flag THEN "remove_meta_read" ELSE "remove_meta_key"

\* The body of a gated method starts: its first backend call is issued.
\* getValue of an item with init calls getOrInitValue, which queues on the
\* mutex at once.
Enter(p, o) ==
  /\ pc' = [pc EXCEPT ![p] = FirstStep(o)]
  /\ mutexQ' = IF FirstStep(o) = "goi_read" THEN Append(mutexQ, p) ELSE mutexQ

\* A caller calls a method of the item. migrate() issues its backend read at
\* once. Every other method starts with `await migrationsDone`: it suspends
\* at the gate while the promise is pending, and goes on to its body when
\* the promise has resolved already.
CallOf(ops, p) ==
  /\ pc[p] = "idle"
  /\ nCalls < MaxCalls
  /\ \E name \in ops : \E arg \in Args[name] :
       LET o == [name |-> name, arg |-> arg] IN
       /\ op' = [op EXCEPT ![p] = o]
       /\ called' = called \cup {o}
       /\ IF name = "migrate"
          THEN pc' = [pc EXCEPT ![p] = "mig_read"] /\ UNCHANGED mutexQ
          ELSE IF AwaitMigrationsDone
          THEN Enter(p, o)
          ELSE pc' = [pc EXCEPT ![p] = "gate"] /\ UNCHANGED mutexQ
  /\ nCalls' = nCalls + 1
  /\ UNCHANGED <<storageVars, watchVars, cfg, store, store0, migDone, migLogged, loc, last,
                 initCalls, initWrites>>

Call(p) == CallOf(GatedOps \cup {"migrate"}, p)

\* A suspended call goes on when migrationsDone resolves.
Gate(p) ==
  /\ pc[p] = "gate"
  /\ AwaitMigrationsDone
  /\ Enter(p, op[p])
  /\ UNCHANGED <<storageVars, watchVars, cfg, store, store0, called, migDone, migLogged, op, loc, last,
                 initCalls, initWrites, nCalls>>

\* getValue without init: getItem(driver, driverKey, opts)
GetItem(p) ==
  /\ pc[p] = "get_item"
  /\ Finish(p, [NoRes EXCEPT !.out = "ok",
                  !.val = getValueOrFallback(store.value, cfg.fallback)])
  /\ UNCHANGED <<storageVars, watchVars, cfg, store0, called, store, initCalls, initWrites, nCalls>>

\* getMeta(driver, driverKey)
GetMeta(p) ==
  /\ pc[p] = "get_meta"
  /\ Finish(p, [NoRes EXCEPT !.out = "ok", !.meta = getMetaValue(store.meta)])
  /\ UNCHANGED <<storageVars, watchVars, cfg, store0, called, store, initCalls, initWrites, nCalls>>

\* setItem(driver, driverKey, value): driver.setItem(driverKey, value ?? null)
SetItem(p) ==
  /\ pc[p] = "set_item"
  /\ store' = DriverSetItem(store, op[p].arg.val)
  /\ Finish(p, [NoRes EXCEPT !.out = "ok"])
  /\ UNCHANGED <<storageVars, watchVars, cfg, store0, called, initCalls, initWrites, nCalls>>

\* setMeta, first half: existingFields = getMetaValue(await driver.getItem(metaKey))
SetMetaRead(p) ==
  /\ pc[p] = "set_meta_read"
  /\ loc' = [loc EXCEPT ![p].meta = getMetaValue(store.meta)]
  /\ Goto(p, "set_meta_write")
  /\ UNCHANGED <<storageVars, watchVars, cfg, store0, called, store, mutexQ, initCalls, initWrites, nCalls>>

\* A setMeta that stores the given properties in place of the existing ones.
ReplaceMeta(existingFields, properties) ==
  [f \in {"shape", "v", "a"} |->
     IF f = "shape" THEN "object"
     ELSE IF f \in DOMAIN properties /\ properties[f] \notin {-1, Null}
     THEN properties[f] ELSE 0]

\* The per-field merge of setMeta:
\*   const newFields = { ...existingFields };
\*   Object.entries(properties).forEach(([key, value]) => {
\*     if (value == null) delete newFields[key]; else newFields[key] = value; })
\* The spread of null is {}. properties maps the names it has to their
\* values; a field that an object does not have is 0 in its record.
MergeMeta(existingFields, properties) ==
  [f \in {"shape", "v", "a"} |->
     IF f = "shape" THEN "object"
     ELSE IF f \in DOMAIN properties
     THEN (IF properties[f] \in {-1, Null} THEN 0 ELSE properties[f])
     ELSE IF existingFields.shape = "object" THEN existingFields[f] ELSE 0]

\* A removal that leaves no field at all.
DeleteEveryField(existingFields, fields, value) == MetaObj(0, 0)

\* A merge into the mapping that is stored when the write is made, not into
\* the one that was read.
MergeFieldsIntoStored(existingFields, fields, value) ==
  MergeMeta(getMetaValue(store.meta), [f \in fields |-> value])

\* The merge of one value into the named fields.
MergeFields(existingFields, fields, value) ==
  MergeMeta(existingFields, [f \in fields |-> value])

\* setMeta, second half: await driver.setItem(metaKey, newFields)
SetMetaWrite(p) ==
  /\ pc[p] = "set_meta_write"
  /\ store' = [store EXCEPT !.meta =
                 MergeFields(loc[p].meta, op[p].arg.fields, op[p].arg.val)]
  /\ Finish(p, [NoRes EXCEPT !.out = "ok"])
  /\ UNCHANGED <<storageVars, watchVars, cfg, store0, called, initCalls, initWrites, nCalls>>

\* removeItem: await driver.removeItem(driverKey); with opts.removeMeta the
\* shadow key is removed by a second backend call.
RemoveItem(p) ==
  /\ pc[p] = "remove_item"
  /\ store' = [store EXCEPT !.value = Null]
  /\ IF op[p].arg.flag
     THEN Goto(p, "remove_item_meta") /\ UNCHANGED <<loc, mutexQ>>
     ELSE Finish(p, [NoRes EXCEPT !.out = "ok"])
  /\ UNCHANGED <<storageVars, watchVars, cfg, store0, called, initCalls, initWrites, nCalls>>

RemoveItemMeta(p) ==
  /\ pc[p] = "remove_item_meta"
  /\ store' = [store EXCEPT !.meta = NoMeta]
  /\ Finish(p, [NoRes EXCEPT !.out = "ok"])
  /\ UNCHANGED <<storageVars, watchVars, cfg, store0, called, initCalls, initWrites, nCalls>>

\* removeMeta with no properties: await driver.removeItem(metaKey)
RemoveMetaKey(p) ==
  /\ pc[p] = "remove_meta_key"
  /\ store' = [store EXCEPT !.meta = NoMeta]
  /\ Finish(p, [NoRes EXCEPT !.out = "ok"])
  /\ UNCHANGED <<storageVars, watchVars, cfg, store0, called, initCalls, initWrites, nCalls>>

\* removeMeta with properties: read the mapping, delete the named fields,
\* write the rest back.
RemoveMetaRead(p) ==
  /\ pc[p] = "remove_meta_read"
  /\ loc' = [loc EXCEPT ![p].meta = getMetaValue(store.meta)]
  /\ Goto(p, "remove_meta_write")
  /\ UNCHANGED <<storageVars, watchVars, cfg, store0, called, store, mutexQ, initCalls, initWrites, nCalls>>

RemoveMetaWrite(p) ==
  /\ pc[p] = "remove_meta_write"
  /\ store' = [store EXCEPT !.meta =
                 MergeFields(loc[p].meta, op[p].arg.fields, Null)]
  /\ Finish(p, [NoRes EXCEPT !.out = "ok"])
  /\ UNCHANGED <<storageVars, watchVars, cfg, store0, called, initCalls, initWrites, nCalls>>

\* ------------------------------------------------------ specifications
\* The item's life: definition, migration, initialization and every method,
\* called by concurrent callers. The item is defined over a stored value that
\* is absent, unversioned, or of the newest version, with a target version
\* one below the newest (so that the stored value is migrated, or found to
\* be a downgrade), and migration functions that all work or all raise.
ItemConfigs ==
  { c \in ConfigsOver({"fn", "throw"}) :
      /\ c.target = MaxVersion - 1
      /\ c.hasMigs
      /\ c.fallback # Null \/ c.hasInit
      /\ \A v \in 2..MaxVersion : c.migs[v] = c.migs[2] /\ c.migs[v] # "absent" }
ItemStores ==
  { [value |-> Null, meta |-> NoMeta], [value |-> 1, meta |-> NoMeta],
    [value |-> 1, meta |-> MetaObj(MaxVersion, 1)] }

Init == InitOver(ItemConfigs, ItemStores)

Next ==
  \/ \E p \in Procs : MigrateRead(p)
  \/ \E p \in Procs : MigrateCommit(p)
  \/ \E p \in Procs : GetOrInitRead(p)
  \/ \E p \in Procs : GetOrInitWrite(p)
  \/ \E p \in Callers : Call(p)
  \/ \E p \in Callers : Gate(p)
  \/ \E p \in Callers : GetItem(p)
  \/ \E p \in Callers : GetMeta(p)
  \/ \E p \in Callers : SetItem(p)
  \/ \E p \in Callers : SetMetaRead(p)
  \/ \E p \in Callers : SetMetaWrite(p)
  \/ \E p \in Callers : RemoveItem(p)
  \/ \E p \in Callers : RemoveItemMeta(p)
  \/ \E p \in Callers : RemoveMetaKey(p)
  \/ \E p \in Callers : RemoveMetaRead(p)
  \/ \E p \in Callers : RemoveMetaWrite(p)

Spec == Init /\ [][Next]_vars

\* The backend settles the calls of the definition's migrate(), and the event
\* loop resumes every call that awaits migrationsDone once it has resolved.
Fairness ==
  /\ WF_vars(MigrateRead(Def))
  /\ WF_vars(MigrateCommit(Def))
  /\ \A p \in Callers : WF_vars(Gate(p))

SpecLive == Spec /\ Fairness

\* migrate() alone: the definition-time migration and explicit migrate()
\* calls, over every target version, every registration of migration
\* functions and every stored value and metadata; no other writer.
MigrateStores == [value : {Null, 1}, meta : Metas]
MigrateConfigs ==
  { c \in ConfigsOver(MigKinds) : ~c.hasInit /\ c.fallback = Null }

InitMigrate == InitOver(MigrateConfigs, MigrateStores)

CallMigrate(p) == CallOf({"migrate"}, p)

NextMigrate ==
  \/ \E p \in Procs : MigrateRead(p)
  \/ \E p \in Procs : MigrateCommit(p)
  \/ GetOrInitRead(Def)
  \/ \E p \in Callers : CallMigrate(p)

SpecMigrate == InitMigrate /\ [][NextMigrate]_vars

\* ------------------------------------------------------ the claims' terms
\* The stored version of an item: the v field of its metadata, 1 when there
\* is no version metadata.
StoredVersion(meta) == IF meta.shape = "object" /\ meta.v # 0 THEN meta.v ELSE 1

CalledNames == { o.name : o \in called }

\* The migration chain for versions s+1..t, in ascending order, applied to x:
\* a version with no registered function is the identity. A registered
\* function that returns null gives null as its result.
RECURSIVE ChainOfResults(_, _, _)
ChainOfResults(s, t, x) ==
  IF s >= t \/ x = Null THEN x
  ELSE ChainOfResults(s + 1, t,
         CASE cfg.migs[s + 1] = "fn" -> MigrationFn(s + 1, x)
           [] cfg.migs[s + 1] = "null" -> Null
           [] OTHER -> x)

\* The same chain, where a registered function that returns null or
\* undefined also leaves the running value as it is.
RECURSIVE ChainKeepingOnNull(_, _, _)
ChainKeepingOnNull(s, t, x) ==
  IF s >= t THEN x
  ELSE ChainKeepingOnNull(s + 1, t,
         IF cfg.migs[s + 1] = "fn" THEN MigrationFn(s + 1, x) ELSE x)

\* The versions in s+1..t that have a registered function, ascending.
RECURSIVE RegisteredVersions(_, _)
RegisteredVersions(s, t) ==
  IF s >= t THEN <<>>
  ELSE (IF cfg.migs[s + 1] = "absent" THEN <<>> ELSE <<s + 1>>)
       \o RegisteredVersions(s + 1, t)

\* Process p's migrate() commits in this step, and the backend accepts it.
CommitsOk(p) ==
  /\ pc[p] = "mig_commit" /\ pc'[p] # "mig_commit"
  /\ last'.out = "ok"

\* Process p's migrate() gets its backend read in this step.
ReadsForMigrate(p) == pc[p] = "mig_read" /\ pc'[p] # "mig_read"

\* Process p's migrate() ends in this step, without an error.
CompletesOk(p) ==
  /\ pc[p] \in {"mig_read", "mig_commit"}
  /\ pc'[p] \notin {"mig_read", "mig_commit"}
  /\ last'.out = "ok"

\* What a successful migration of the value and metadata (value, meta) writes.
ChainWritten(chained, p) ==
  /\ last'.ran = RegisteredVersions(StoredVersion(loc[p].meta), cfg.target)
  /\ store'.value = chained
  /\ store'.meta.shape = "object"
  /\ store'.meta.v = cfg.target
  /\ store'.meta.a = loc[p].meta.a

\* C2 (as stated): a successful migrate() of a stored value of version
\* s <= t invokes the registered functions of s+1..t in ascending order, each
\* once; the stored value becomes the result of that chain of functions, the
\* stored version t, and the other metadata fields stay.
C2_ChainOfFunctionResults ==
  [][\A p \in Procs : CommitsOk(p) =>
       ChainWritten(ChainOfResults(StoredVersion(loc[p].meta), cfg.target,
                                   loc[p].val), p)]_vars

\* C2 (amended): the same, where a version with no registered function and a
\* function that returns null or undefined both leave the running value
\* unchanged.
C2_ChainKeepsValueOnNull ==
  [][\A p \in Procs : CommitsOk(p) =>
       /\ loc[p].val # Null
       /\ StoredVersion(loc[p].meta) <= cfg.target
       /\ ChainWritten(ChainKeepingOnNull(StoredVersion(loc[p].meta),
                                          cfg.target, loc[p].val), p)]_vars

\* An unversioned value with another metadata field was migrated through two
\* functions, in order.
C2_Witness ==
  /\ last.op = "migrate" /\ last.out = "ok" /\ last.ran = <<2, 3>>
  /\ store0 = [value |-> 1, meta |-> MetaObj(0, 1)]
  /\ store = [value |-> MigrationFn(3, MigrationFn(2, 1)), meta |-> MetaObj(3, 1)]

\* The state a successful migrate() leaves: no value (nothing to migrate), or
\* the target version recorded in the metadata.
Migrated ==
  \/ store.value = Null
  \/ store.meta.shape = "object" /\ store.meta.v = cfg.target

\* The versions whose functions process p invokes in the step of its read.
InvokedInStep(p) == IF pc'[p] = "mig_commit" THEN loc'[p].ran ELSE last'.ran

\* C3: migrate() is idempotent. A migrate() that completes successfully
\* leaves the item migrated, and on a migrated item every further migrate()
\* invokes no migration function and leaves the stored value, version and
\* other metadata fields exactly as they were.
C3_MigrateIdempotent ==
  [][/\ \A p \in Procs : CompletesOk(p) => Migrated'
     /\ Migrated =>
          /\ store' = store
          /\ \A p \in Procs : ReadsForMigrate(p) =>
               InvokedInStep(p) = <<>> /\ last'.err \notin {"fn", "downgrade"}]_vars

\* A caller's migrate() ended well without invoking a function, after an
\* earlier migrate() had changed the stored value.
C3_Witness ==
  /\ last.proc \in Callers /\ last.op = "migrate" /\ last.out = "ok"
  /\ last.ran = <<>>
  /\ store.value # store0.value

\* C4: with a stored value whose stored version is greater than the target
\* version, migrate() fails with the downgrade error, invokes no migration
\* function and issues no backend write: the value and metadata stay.
C4_DowngradeRejected ==
  [][\A p \in Procs :
       (/\ ReadsForMigrate(p)
        /\ store.value # Null
        /\ StoredVersion(store.meta) > cfg.target) =>
       /\ last'.proc = p /\ last'.out = "error" /\ last'.err = "downgrade"
       /\ last'.ran = <<>>
       /\ pc'[p] # "mig_commit"
       /\ store' = store]_vars

\* A caller's explicit migrate() was rejected as a downgrade.
C4_Witness ==
  /\ last.proc \in Callers /\ last.op = "migrate"
  /\ last.out = "error" /\ last.err = "downgrade"
  /\ store0.value # Null /\ StoredVersion(store0.meta) > cfg.target
  /\ store = store0

\* The storage area after the migration of what was stored at definition.
Migration(st) ==
  [value |-> ChainKeepingOnNull(StoredVersion(st.meta), cfg.target, st.value),
   meta |-> MetaObj(cfg.target, st.meta.a)]

\* C5: the commit is one write of value and version together. With migrate()
\* the only writer, the storage area holds either the value and version of
\* before the migration or those of after it, never one of each.
C5_CommitAtomic ==
  \/ store = store0
  \/ /\ store0.value # Null
     /\ StoredVersion(store0.meta) <= cfg.target
     /\ store = Migration(store0)

\* One migrate() has committed a changed value with the new version while
\* another is still to commit.
C5_Witness ==
  /\ store.value # store0.value
  /\ store.meta.v = cfg.target
  /\ \E p \in Procs : pc[p] = "mig_commit"

\* ------------------------------------------------------ the item's life
\* The definition's migration attempt is still in flight.
MigrationInFlight == pc[Def] \in {"mig_read", "mig_commit"}

\* C1: with migrations configured, no getValue, setValue, getMeta, setMeta,
\* removeValue or removeMeta call is past its gate (has a backend call issued
\* or done) before the definition-time migration attempt has resolved; until
\* then nothing but a migrate() has written to the storage area.
C1_GatedUntilMigrationResolved ==
  cfg.hasMigs =>
    /\ \A p \in Callers :
         (op[p].name \in GatedOps /\ pc[p] # "gate") => migDone
    /\ last.op \in GatedOps => migDone
    /\ (~migDone /\ "migrate" \notin CalledNames) => store = store0

\* A gated call has finished after the migration resolved, while another
\* call, issued while the migration was in flight, is still at its gate.
C1_Witness ==
  /\ cfg.hasMigs /\ migDone
  /\ last.proc \in Callers /\ last.op \in GatedOps
  /\ \E q \in Callers : q # last.proc /\ pc[q] = "gate"

\* Only getValue has been called.
OnlyGetValueCalled == CalledNames \subseteq {"getValue"}

\* C6: for an item with init and no stored value, concurrent getValue calls
\* and the definition's own initialization invoke init exactly once and write
\* the initial value exactly once; every getValue returns that value.
C6_SingleInit ==
  (cfg.hasInit /\ store0.value = Null /\ OnlyGetValueCalled) =>
    /\ initCalls <= 1 /\ initWrites <= 1
    /\ initWrites <= initCalls
    /\ (last.op = "getValue" \/ pc[Def] = "done") =>
         /\ initCalls = 1 /\ initWrites = 1
         /\ store.value = cfg.initRes
    /\ last.op = "getValue" => last.out = "ok" /\ last.val = cfg.initRes

\* One getValue has returned the initial value, after one init and one
\* write, while the other caller's getValue is queued on the mutex.
C6_Witness ==
  /\ cfg.hasInit /\ store0.value = Null /\ OnlyGetValueCalled
  /\ last.proc = "c1" /\ last.op = "getValue" /\ last.val = cfg.initRes
  /\ pc["c2"] = "goi_read"
  /\ initCalls = 1 /\ initWrites = 1

\* C7 (as stated): init is invoked at most once in the life of the item, for
\* any sequence of getValue, setValue and removeValue calls.
C7_InitAtMostOnce == initCalls <= 1

\* No call has asked to remove the value: no removeValue, no setValue(null).
NoRemovalCalled ==
  \A o \in called :
    o.name # "removeValue" /\ ~(o.name = "setValue" /\ o.arg.val = Null)

\* C7 (amended): init is invoked at most once for any sequence of getValue
\* and setValue calls that never removes the value.
C7_InitAtMostOnceUnlessRemoved == NoRemovalCalled => initCalls <= 1

\* getValue and setValue calls have all returned, and init ran once.
C7_Witness ==
  /\ cfg.hasInit /\ initCalls = 1 /\ NoRemovalCalled
  /\ {"getValue", "setValue"} \subseteq CalledNames
  /\ pc[Def] = "done" /\ \A p \in Callers : pc[p] = "idle"

\* Only the reading methods have been called.
OnlyReadsCalled == CalledNames \subseteq {"getValue", "getMeta"}

\* Once the definition's migration attempt is over, failed or not,
\* migrationsDone has resolved; after a failure, and as long as only reads
\* are called, the storage area is that of before the attempt and getValue
\* returns its value.
PreMigrationStateServed ==
  /\ ~MigrationInFlight => migDone
  /\ migLogged # "none" => migDone /\ store0.value # Null
  /\ (migLogged # "none" /\ OnlyReadsCalled) =>
       /\ store = store0
       /\ last.op = "getValue" => last.out = "ok" /\ last.val = store0.value

\* C8: a failed definition-time migration is caught and migrationsDone
\* resolves all the same: every gated call held at its gate eventually
\* proceeds, the stored value and metadata are those of before the attempt,
\* and getValue returns that value.
C8_FailedMigrationResolves ==
  /\ []PreMigrationStateServed
  /\ \A p \in Callers : (pc[p] = "gate") ~> (pc[p] # "gate")

\* The commit of the definition's migration was rejected, and a caller's
\* getValue returned the value of before the migration.
C8_Witness ==
  /\ migLogged = "commit" /\ OnlyReadsCalled
  /\ last.proc \in Callers /\ last.op = "getValue"
  /\ last.val = store0.value
  /\ store = store0

\* A migration of the storage area st cannot succeed: a downgrade, or a
\* migration function that raises among those to run.
MustFail(st) ==
  /\ st.value # Null
  /\ \/ StoredVersion(st.meta) > cfg.target
     \/ \E v \in (StoredVersion(st.meta) + 1)..cfg.target : cfg.migs[v] = "throw"

\* Process p's commit ends in this step without the migrated value and the
\* target version being in the storage area.
CommitNotApplied(p) ==
  /\ pc[p] = "mig_commit" /\ pc'[p] # "mig_commit"
  /\ store'.value # loc[p].mval \/ store'.meta.v # cfg.target

\* C9: an explicit migrate() that fails ends in an error for its caller; the
\* same failure of the definition-time migration is logged, resolves
\* migrationsDone and lets the definition go on, and no gated call ends in
\* an error.
C9_ExplicitMigrateReportsFailure ==
  [][/\ \A p \in Callers :
          ((ReadsForMigrate(p) /\ MustFail(store)) \/ CommitNotApplied(p)) =>
            /\ pc'[p] = "idle"
            /\ last'.proc = p /\ last'.op = "migrate" /\ last'.out = "error"
     /\ ((ReadsForMigrate(Def) /\ MustFail(store)) \/ CommitNotApplied(Def)) =>
          /\ migDone' /\ migLogged' # "none"
          /\ pc'[Def] = "goi_read"
     /\ last'.op \in GatedOps => last'.out = "ok"]_vars

\* The definition's migration failed on a raising function and was only
\* logged; the explicit migrate() of a caller failed the same way and
\* reported it.
C9_Witness ==
  /\ migDone /\ migLogged = "fn"
  /\ last.proc \in Callers /\ last.op = "migrate"
  /\ last.out = "error" /\ last.err = "fn"

\* C10: a failed definition-time migration is not retried by the gated
\* methods: only migrate() itself is ever in a migration step, the
\* definition's attempt is never started again, and as long as no explicit
\* migrate() is called the target version is never stored.
C10_FailureNotRetried ==
  /\ \A p \in Procs :
       pc[p] \in {"mig_read", "mig_commit"} =>
         /\ op[p].name = "migrate"
         /\ p = Def => ~migDone
  /\ (migLogged # "none" /\ "migrate" \notin CalledNames) =>
       store.meta.v # cfg.target

\* After the definition's migration failed at its commit and a getValue was
\* served, an explicit migrate() ran the migration again, and committed.
C10_Witness ==
  /\ migLogged = "commit"
  /\ "getValue" \in CalledNames
  /\ last.proc \in Callers /\ last.op = "migrate" /\ last.out = "ok"
  /\ store.meta.v = cfg.target

\* ====================================================== the storage object
\* The calls of the storage object itself (storage.getItem, getItems, ...),
\* made one after the other by one caller on the areas of browser.storage.

\* The longest list a caller passes to a batched call.
MaxKeys == 3

\* An absent key, an absent property, undefined. A read of it gives
\* undefined, which ?? and == null treat like null; but a key that holds null
\* is still a key of the area.
Absent == -1
Nullish(x) == x \in {Absent, Null}

\* The areas (the code has local, session, sync and managed) and the keys.
\* A storage key "area:name" is the record [area, name]; a driver key is the
\* name, or the name followed by "$" (the shadow key holding the metadata).
AreaNames == {"local", "session"}
KeyNames == {"a", "b"}
StorageKeys == [area : AreaNames, name : KeyNames]
DriverKeys == [name : KeyNames, shadow : BOOLEAN]

\* resolveKey: the area is what precedes the first ":", the driver key what
\* follows it.
resolveKey(key) ==
  [driverArea |-> key.area, driverKey |-> [name |-> key.name, shadow |-> FALSE]]

\* `${driverArea}:${driverResult.key}`
JoinKey(driverArea, driverKey) == [area |-> driverArea, name |-> driverKey.name]

\* getMetaKey: key + "$"
getMetaKey(driverKey) == [driverKey EXCEPT !.shadow = TRUE]

\* What the area holds under a driver key: res[key] of area.get(key).
Stored(ars, area, driverKey) ==
  IF driverKey.shadow THEN ars[area][driverKey.name].meta
  ELSE ars[area][driverKey.name].value

\* result[key] ?? null, for a value and for a metadata object.
OrNull(driverKey, x) ==
  IF driverKey.shadow
  THEN (IF x.shape = "absent" THEN [x EXCEPT !.shape = "null"] ELSE x)
  ELSE (IF Nullish(x) THEN Null ELSE x)

\* driver.getItems: one area.get(keys); one result per key asked, in order.
DriverGetItems(ars, area, keys) ==
  [i \in 1..Len(keys) |->
     [key |-> keys[i], value |-> OrNull(keys[i], Stored(ars, area, keys[i]))]]

NoCall == [name |-> "none"]
NoRet == [name |-> "none"]

\* The storage object with no call made yet.
StorageInit(stores, inputs) ==
  /\ areas \in stores
  /\ input \in inputs
  /\ listeners = <<>>
  /\ onChanged = [area \in AreaNames |-> {}]
  /\ watchListeners = [area \in AreaNames |-> {}]
  /\ events = <<>> /\ fired = <<>>
  /\ areas0 = areas
  /\ call = NoCall
  /\ ret = NoRet
  /\ kCalls = 0

\* No item is defined: the variables of the item keep their values.
NoItem ==
  /\ cfg = <<>> /\ store = <<>> /\ store0 = <<>> /\ called = {}
  /\ migDone = TRUE /\ migLogged = "none" /\ mutexQ = <<>>
  /\ pc = <<>> /\ op = <<>> /\ loc = <<>> /\ last = <<>>
  /\ initCalls = 0 /\ initWrites = 0 /\ nCalls = 0

\* A call is made: the caller awaits the previous one before the next.
Begins ==
  /\ call = NoCall
  /\ kCalls < MaxCalls
  /\ kCalls' = kCalls + 1
  /\ areas0' = areas

\* The call made suspends at a backend call, as c.
Suspends(c) ==
  /\ call' = c
  /\ ret' = NoRet

\* The call returns r to its caller.
Returns(r) ==
  /\ ret' = r
  /\ call' = NoCall

\* ------------------------------------------------------ getItems
\* What a caller can pass for one key: the key string, a defined item (its
\* key and its configured fallback), or { key, options }.
NoOpts == [fallback |-> Absent, defaultValue |-> Absent]
GetItemOptions == {[fallback |-> 5, defaultValue |-> Absent],
                   [fallback |-> Absent, defaultValue |-> 6]}
KeyOf(area, name) == [area |-> area, name |-> name]
GetItemsEntries ==
  {[form |-> "string", key |-> k, options |-> NoOpts, fallback |-> Absent] :
     k \in {KeyOf("local", "a"), KeyOf("local", "b"), KeyOf("session", "a")}}
  \cup {[form |-> "item", key |-> k, options |-> NoOpts, fallback |-> 4] :
     k \in {KeyOf("local", "a"), KeyOf("session", "a")}}
  \cup {[form |-> "options", key |-> k, options |-> o, fallback |-> Absent] :
     k \in {KeyOf("local", "a")}, o \in GetItemOptions}
  \cup {[form |-> "options", key |-> KeyOf("local", "b"),
         options |-> [fallback |-> 5, defaultValue |-> 6], fallback |-> Absent]}

\* The lists of at most n entries over a set.
ListsOver(entries, n) == UNION {[1..m -> entries] : m \in 0..n}

\* keys.forEach, first half: keyStr and opts of one entry.
EntryKey(entry) == entry.key
EntryOpts(entry) ==
  CASE entry.form = "string" -> NoOpts
    [] entry.form = "item" -> [NoOpts EXCEPT !.fallback = entry.fallback]
    [] entry.form = "options" -> entry.options

\* orderedKeys.push(keyStr)
OrderedKeys(keys) == [i \in 1..Len(keys) |-> EntryKey(keys[i])]

\* areaToKeyMap: for each area the driver keys of its entries, in the order
\* of the list.
RECURSIVE AreaToKeyMap(_, _)
AreaToKeyMap(keys, area) ==
  IF keys = <<>> THEN <<>>
  ELSE LET r == resolveKey(EntryKey(Head(keys))) IN
       (IF r.driverArea = area THEN <<r.driverKey>> ELSE <<>>)
       \o AreaToKeyMap(Tail(keys), area)

\* keyToOptsMap.set(keyStr, opts): the map keeps, for a key string, the opts
\* of the last entry with that key.
RECURSIVE KeyToOptsMap(_, _)
KeyToOptsMap(keys, key) ==
  IF keys = <<>> THEN NoOpts
  ELSE IF EntryKey(keys[Len(keys)]) = key THEN EntryOpts(keys[Len(keys)])
  ELSE KeyToOptsMap(SubSeq(keys, 1, Len(keys) - 1), key)

\* opts?.fallback ?? opts?.defaultValue
OptsFallback(opts) ==
  IF ~Nullish(opts.fallback) THEN opts.fallback ELSE opts.defaultValue

\* driverResults.forEach(...): resultsMap.set(key, value) for every result of
\* the area's read.
RECURSIVE SetResults(_, _, _, _)
SetResults(resultsMap, keys, driverArea, driverResults) ==
  IF driverResults = <<>> THEN resultsMap
  ELSE LET driverResult == Head(driverResults)
           key == JoinKey(driverArea, driverResult.key)
           opts == KeyToOptsMap(keys, key)
           value == getValueOrFallback(driverResult.value, OptsFallback(opts))
       IN  SetResults([resultsMap EXCEPT ![key] = value], keys, driverArea,
                      Tail(driverResults))

\* A result list in the order of the areas, each area's keys together.
ResultsGroupedByArea(orderedKeys, resultsMap) ==
  LET inArea(area) == SelectSeq(orderedKeys, LAMBDA k : k.area = area)
      grouped == inArea("local") \o inArea("session")
  IN  [i \in 1..Len(grouped) |->
         [key |-> grouped[i], value |-> resultsMap[grouped[i]]]]

\* return orderedKeys.map((key) => ({ key, value: resultsMap.get(key) }))
OrderedResults(orderedKeys, resultsMap) ==
  [i \in 1..Len(orderedKeys) |->
     [key |-> orderedKeys[i], value |-> resultsMap[orderedKeys[i]]]]

\* storage.getItems(keys) is called: the maps are built and one
\* driver.getItems is issued for every area that has a key, all at once.
\* With no key there is nothing to await.
GetItemsCall ==
  LET keys == input
      pending == {a \in AreaNames : AreaToKeyMap(keys, a) # <<>>} IN
  /\ Begins
  /\ pending # {}
  /\ Suspends([name |-> "getItems", arg |-> keys,
               orderedKeys |-> OrderedKeys(keys),
               pending |-> pending,
               resultsMap |-> [k \in StorageKeys |-> Absent]])
  /\ UNCHANGED <<areas, input, itemVars, watchVars>>

GetItemsOfNothing ==
  /\ Begins
  /\ input = <<>>
  /\ Returns([name |-> "getItems", arg |-> <<>>, out |-> "ok",
              val |-> OrderedResults(<<>>, <<>>)])
  /\ UNCHANGED <<areas, input, itemVars, watchVars>>

\* The read of one area completes, in whatever order the areas answer; its
\* results go to resultsMap. When the last one has, Promise.all resolves and
\* the call returns the ordered list.
GetItemsArea ==
  /\ call.name = "getItems"
  /\ \E driverArea \in call.pending :
       LET driverResults ==
             DriverGetItems(areas, driverArea, AreaToKeyMap(call.arg, driverArea))
           resultsMap ==
             SetResults(call.resultsMap, call.arg, driverArea, driverResults)
       IN  IF call.pending = {driverArea}
           THEN Returns([name |-> "getItems", arg |-> call.arg, out |-> "ok",
                         val |-> OrderedResults(call.orderedKeys, resultsMap)])
           ELSE /\ call' = [call EXCEPT !.pending = @ \ {driverArea},
                                        !.resultsMap = resultsMap]
                /\ UNCHANGED ret
  /\ UNCHANGED <<areas, areas0, kCalls, input, itemVars, watchVars>>

\* getItems alone, on areas that hold a value under some keys and nothing,
\* or null, under others.
EmptyKey == [value |-> Absent, meta |-> NoMeta]
GetItemsStores ==
  { ars \in [AreaNames -> [KeyNames -> {EmptyKey, [EmptyKey EXCEPT !.value = 1],
                                        [EmptyKey EXCEPT !.value = Null]}]] :
      /\ ars["local"]["a"].value = Absent
      /\ ars["session"]["b"].value = 1 }

InitGetItems ==
  StorageInit(GetItemsStores, ListsOver(GetItemsEntries, MaxKeys)) /\ NoItem

NextGetItems ==
  \/ GetItemsCall
  \/ GetItemsOfNothing
  \/ GetItemsArea

SpecGetItems == InitGetItems /\ [][NextGetItems]_vars

\* ------------------------------------------------------ getItems: claims
\* What the area holds under the key of an entry.
StoredAt(key) == areas[key.area][key.name].value

\* C11: getItems returns one result per entry of its input, in the order of
\* the input: the i-th result carries the key of the i-th entry, and the
\* value stored under it when there is one, however the keys are spread over
\* the areas and in whatever order the areas answer.
C11_GetItemsKeepsOrder ==
  ret.name = "getItems" =>
    /\ Len(ret.val) = Len(ret.arg)
    /\ \A i \in 1..Len(ret.arg) :
         /\ ret.val[i].key = ret.arg[i].key
         /\ ret.val[i].value # Absent
         /\ StoredAt(ret.arg[i].key) \notin {Absent, Null} =>
              ret.val[i].value = StoredAt(ret.arg[i].key)

\* getItems(["local:b", "session:a", "local:a"]) has returned, the keys of
\* one area apart in the list, with a value under the first two.
C11_Witness ==
  /\ ret.name = "getItems"
  /\ Len(ret.arg) = 3
  /\ \A i \in 1..3 : ret.arg[i].form = "string"
  /\ <<ret.val[1].key, ret.val[2].key, ret.val[3].key>> =
       <<[area |-> "local", name |-> "b"], [area |-> "session", name |-> "a"],
         [area |-> "local", name |-> "a"]>>
  /\ ret.val[1].value = 1 /\ ret.val[2].value = 1 /\ ret.val[3].value = Null

\* The fallback of one entry: the fallback of its options (or the deprecated
\* defaultValue), else the fallback of the item it names, else null.
OwnFallback(entry) ==
  CASE entry.form = "options" /\ entry.options.fallback # Absent ->
         entry.options.fallback
    [] entry.form = "options" /\ entry.options.defaultValue # Absent ->
         entry.options.defaultValue
    [] entry.form = "item" -> entry.fallback
    [] OTHER -> Null

\* C12: for every entry of a getItems input whose stored value is absent,
\* the value returned for the entry is the entry's own fallback, whatever
\* the other entries of the list are.
C12_OwnFallbackPerEntry ==
  ret.name = "getItems" =>
    \A i \in 1..Len(ret.arg) :
      StoredAt(ret.arg[i].key) \in {Absent, Null} =>
        ret.val[i].value = OwnFallback(ret.arg[i])

\* The same for the lists that name no key twice.
NoKeyTwice(keys) ==
  \A i, j \in 1..Len(keys) : keys[i].key = keys[j].key => i = j
C12_OwnFallbackOfDistinctKeys ==
  (ret.name = "getItems" /\ NoKeyTwice(ret.arg)) =>
    \A i \in 1..Len(ret.arg) :
      StoredAt(ret.arg[i].key) \in {Absent, Null} =>
        ret.val[i].value = OwnFallback(ret.arg[i])

\* ------------------------------------------------------ the backend
\* The area with x under the driver key.
Put(ars, area, driverKey, x) ==
  IF driverKey.shadow
  THEN [ars EXCEPT ![area][driverKey.name].meta = x]
  ELSE [ars EXCEPT ![area][driverKey.name].value = x]

\* Is x undefined (as a value, as a metadata object).
IsUndefined(driverKey, x) ==
  IF driverKey.shadow THEN x.shape = "absent" ELSE x = Absent

\* Is x null or undefined (as a value, as a metadata object).
IsNullish(driverKey, x) ==
  IF driverKey.shadow THEN x.shape \in {"absent", "null"} ELSE Nullish(x)

\* browser.storage.<area>.remove(keys): the keys are in the area no more.
RECURSIVE AreaRemove(_, _, _)
AreaRemove(ars, area, keys) ==
  IF keys = <<>> THEN ars
  ELSE AreaRemove(Put(ars, area, Head(keys),
                      IF Head(keys).shadow THEN NoMeta ELSE Absent),
                  area, Tail(keys))

\* browser.storage.<area>.set(items): every property of items is stored
\* under its key, null included; a property that is undefined is not part
\* of the serialized items, and its key is left as it is. items is given as
\* the list of its properties, a later one replacing an earlier one of the
\* same key.
RECURSIVE AreaSet(_, _, _)
AreaSet(ars, area, items) ==
  IF items = <<>> THEN ars
  ELSE LET last1 == items[Len(items)]
           rest == SelectSeq(SubSeq(items, 1, Len(items) - 1),
                             LAMBDA e : e.key # last1.key)
           done == AreaSet(ars, area, rest)
       IN  IF IsUndefined(last1.key, last1.value) THEN done
           ELSE Put(done, area, last1.key, last1.value)

\* A driver.setItem that hands every value, null too, to area.set.
AreaSetItemNeverRemoves(ars, area, key, value) ==
  AreaSet(ars, area, <<[key |-> key, value |-> value]>>)

\* driver.setItem: value == null removes the key, any other value is set.
AreaSetItem(ars, area, key, value) ==
  IF IsNullish(key, value) THEN AreaRemove(ars, area, <<key>>)
  ELSE AreaSet(ars, area, <<[key |-> key, value |-> value]>>)

\* driver.removeItem
AreaRemoveItem(ars, area, key) == AreaRemove(ars, area, <<key>>)

\* driver.snapshot: area.get(), every key the area holds with what it holds.
AreaSnapshot(ars, area) ==
  [k \in { k \in DriverKeys : ~IsUndefined(k, Stored(ars, area, k)) } |->
     Stored(ars, area, k)]

\* ------------------------------------------------------ single-key calls
GetItemArgs ==
  [key : StorageKeys,
   opts : {NoOpts} \cup GetItemOptions \cup {[fallback |-> 5, defaultValue |-> 6]}]
SetItemArgs == [key : StorageKeys, value : {Absent, Null, 2}]
RemoveItemArgs == [key : StorageKeys, removeMeta : BOOLEAN]

\* storage.getItem(key, opts):
\*   getValueOrFallback(await driver.getItem(driverKey),
\*                      opts?.fallback ?? opts?.defaultValue)
StorageGetItem(arg) ==
  LET r == resolveKey(arg.key)
      res == Stored(areas, r.driverArea, r.driverKey)
  IN  /\ Begins
      /\ Returns([name |-> "getItem", arg |-> arg, out |-> "ok",
                  val |-> getValueOrFallback(res, OptsFallback(arg.opts))])
      /\ UNCHANGED <<areas, input, itemVars, watchVars>>

\* storage.setItem(key, value): await driver.setItem(driverKey, value ?? null)
StorageSetItem(arg) ==
  LET r == resolveKey(arg.key)
      value == IF Nullish(arg.value) THEN Null ELSE arg.value
  IN  /\ Begins
      /\ areas' = AreaSetItem(areas, r.driverArea, r.driverKey, value)
      /\ Returns([name |-> "setItem", arg |-> arg, out |-> "ok"])
      /\ UNCHANGED <<input, itemVars, watchVars>>

\* storage.removeItem(key, opts): await driver.removeItem(driverKey); with
\* opts.removeMeta the call goes on to remove the shadow key.
StorageRemoveItem(arg) ==
  LET r == resolveKey(arg.key) IN
  /\ Begins
  /\ areas' = AreaRemoveItem(areas, r.driverArea, r.driverKey)
  /\ IF arg.removeMeta
     THEN Suspends([name |-> "removeItem", arg |-> arg])
     ELSE Returns([name |-> "removeItem", arg |-> arg, out |-> "ok"])
  /\ UNCHANGED <<input, itemVars, watchVars>>

\*   await driver.removeItem(metaKey)
StorageRemoveItemMeta ==
  /\ call.name = "removeItem"
  /\ LET r == resolveKey(call.arg.key) IN
     areas' = AreaRemoveItem(areas, r.driverArea, getMetaKey(r.driverKey))
  /\ Returns([name |-> "removeItem", arg |-> call.arg, out |-> "ok"])
  /\ UNCHANGED <<areas0, kCalls, input, itemVars, watchVars>>

\* storage.snapshot(base): await driver.snapshot()
StorageSnapshot(base) ==
  /\ Begins
  /\ Returns([name |-> "snapshot", arg |-> base, out |-> "ok",
              val |-> AreaSnapshot(areas, base)])
  /\ UNCHANGED <<areas, input, itemVars, watchVars>>

\* The single-key calls, one after the other, on areas where a key is not
\* there, holds a value with metadata, or holds null.
KeyCells == {EmptyKey, [value |-> 1, meta |-> MetaObj(1, 1)],
             [value |-> Null, meta |-> NoMeta]}
KVStores ==
  { ars \in [AreaNames -> [KeyNames -> KeyCells]] :
      \A area \in AreaNames : ars[area]["b"] = EmptyKey }

InitKV == StorageInit(KVStores, {<<>>}) /\ NoItem

NextKV ==
  \/ \E arg \in GetItemArgs : StorageGetItem(arg)
  \/ \E arg \in SetItemArgs : StorageSetItem(arg)
  \/ \E arg \in RemoveItemArgs : StorageRemoveItem(arg)
  \/ StorageRemoveItemMeta
  \/ \E base \in AreaNames : StorageSnapshot(base)

SpecKV == InitKV /\ [][NextKV]_vars

\* ------------------------------------------------------ single keys: claims
\* C13: round trip. A getItem(k) that follows setItem(k, v) returns v when v
\* is not null; after setItem(k, null) the key is not in the area and
\* getItem(k) returns the fallback given to it, or null when none is given.
C13_SetThenGetRoundTrip ==
  [][(/\ ret.name = "setItem" /\ ret'.name = "getItem"
      /\ ret'.arg.key = ret.arg.key) =>
       IF ret.arg.value \notin {Absent, Null}
       THEN ret'.val = ret.arg.value
       ELSE /\ areas[ret.arg.key.area][ret.arg.key.name].value = Absent
            /\ ret'.val =
                 (IF ret'.arg.opts.fallback # Absent THEN ret'.arg.opts.fallback
                  ELSE IF ret'.arg.opts.defaultValue # Absent
                       THEN ret'.arg.opts.defaultValue
                  ELSE Null)]_vars

\* getItem has returned the value that the setItem before it stored.
C13_Witness ==
  /\ ret.name = "getItem" /\ ret.val = 2 /\ kCalls = 2
  /\ areas0[ret.arg.key.area][ret.arg.key.name].value = 2
  /\ areas[ret.arg.key.area][ret.arg.key.name].value = 2

\* ------------------------------------------------------ setItems, removeItems
\* One entry of storage.setItems: { key, value }; the value may be null or
\* undefined.
SetItemsEntries ==
  {[key |-> KeyOf("local", "a"), value |-> x] : x \in {Absent, Null, 2}}
  \cup {[key |-> KeyOf("local", "b"), value |-> 2],
        [key |-> KeyOf("session", "a"), value |-> Null],
        [key |-> KeyOf("session", "a"), value |-> 3]}

\* areaToKeyValueMap: for each area the { key: driverKey, value } of its
\* entries, in the order of the list.
RECURSIVE AreaToKeyValueMap(_, _)
AreaToKeyValueMap(values, area) ==
  IF values = <<>> THEN <<>>
  ELSE LET r == resolveKey(Head(values).key) IN
       (IF r.driverArea = area
        THEN <<[key |-> r.driverKey, value |-> Head(values).value]>> ELSE <<>>)
       \o AreaToKeyValueMap(Tail(values), area)

\* driver.setItems: the values are reduced to one object, map[key] = value,
\* which goes to area.set in one call.
AreaSetItems(ars, area, values) == AreaSet(ars, area, values)

\* storage.setItems(values) is called: one driver.setItems is issued for
\* every area that has an entry, all at once.
SetItemsCall ==
  LET pending == {a \in AreaNames : AreaToKeyValueMap(input.arg, a) # <<>>} IN
  /\ input.name = "setItems"
  /\ Begins
  /\ pending # {}
  /\ Suspends([name |-> "setItems", arg |-> input.arg, pending |-> pending])
  /\ UNCHANGED <<areas, input, itemVars, watchVars>>

SetItemsOfNothing ==
  /\ input.name = "setItems"
  /\ input.arg = <<>>
  /\ Begins
  /\ Returns([name |-> "setItems", arg |-> <<>>, out |-> "ok"])
  /\ UNCHANGED <<areas, input, itemVars, watchVars>>

\* The write of one area completes; when the last one has, the call returns.
SetItemsArea ==
  /\ call.name = "setItems"
  /\ \E driverArea \in call.pending :
       /\ areas' = AreaSetItems(areas, driverArea,
                                AreaToKeyValueMap(call.arg, driverArea))
       /\ IF call.pending = {driverArea}
          THEN Returns([name |-> "setItems", arg |-> call.arg, out |-> "ok"])
          ELSE /\ call' = [call EXCEPT !.pending = @ \ {driverArea}]
               /\ UNCHANGED ret
  /\ UNCHANGED <<areas0, kCalls, input, itemVars, watchVars>>

\* One entry of storage.removeItems: a key string, a defined item,
\* { key, options } or { item, options }.
RemoveItemsEntries ==
  {[form |-> "string", key |-> KeyOf("local", "a"), removeMeta |-> FALSE],
   [form |-> "item", key |-> KeyOf("session", "a"), removeMeta |-> FALSE],
   [form |-> "keyOptions", key |-> KeyOf("local", "a"), removeMeta |-> TRUE],
   [form |-> "keyOptions", key |-> KeyOf("local", "b"), removeMeta |-> FALSE],
   [form |-> "itemOptions", key |-> KeyOf("session", "a"), removeMeta |-> TRUE],
   [form |-> "itemOptions", key |-> KeyOf("local", "b"), removeMeta |-> TRUE]}

\* opts?.removeMeta of an entry: the first two forms carry no options.
EntryRemoveMeta(entry) ==
  entry.form \in {"keyOptions", "itemOptions"} /\ entry.removeMeta

\* areaToKeysMap: for each area the driver keys of its entries, each
\* followed by its shadow key when the entry asks for it.
RECURSIVE AreaToKeysMap(_, _)
AreaToKeysMap(keys, area) ==
  IF keys = <<>> THEN <<>>
  ELSE LET r == resolveKey(Head(keys).key) IN
       (IF r.driverArea # area THEN <<>>
        ELSE IF EntryRemoveMeta(Head(keys))
        THEN <<r.driverKey, getMetaKey(r.driverKey)>>
        ELSE <<r.driverKey>>)
       \o AreaToKeysMap(Tail(keys), area)

\* A removeItems that removes the shadow key of every key it is given.
AreaToKeysMapWithMeta(keys, area) ==
  AreaToKeysMap([i \in 1..Len(keys) |->
                   [keys[i] EXCEPT !.form = "keyOptions", !.removeMeta = TRUE]],
                area)

\* driver.removeItems: one area.remove(keys)
AreaRemoveItems(ars, area, keys) == AreaRemove(ars, area, keys)

\* The keys removeItems hands to the driver of an area.
RemoveItemsKeys(keys, area) == AreaToKeysMap(keys, area)

\* storage.removeItems(keys) is called: one driver.removeItems is issued for
\* every area that has a key.
RemoveItemsCall ==
  LET pending == {a \in AreaNames : RemoveItemsKeys(input.arg, a) # <<>>} IN
  /\ input.name = "removeItems"
  /\ Begins
  /\ pending # {}
  /\ Suspends([name |-> "removeItems", arg |-> input.arg, pending |-> pending])
  /\ UNCHANGED <<areas, input, itemVars, watchVars>>

RemoveItemsOfNothing ==
  /\ input.name = "removeItems"
  /\ input.arg = <<>>
  /\ Begins
  /\ Returns([name |-> "removeItems", arg |-> <<>>, out |-> "ok"])
  /\ UNCHANGED <<areas, input, itemVars, watchVars>>

RemoveItemsArea ==
  /\ call.name = "removeItems"
  /\ \E driverArea \in call.pending :
       /\ areas' = AreaRemoveItems(areas, driverArea,
                                   RemoveItemsKeys(call.arg, driverArea))
       /\ IF call.pending = {driverArea}
          THEN Returns([name |-> "removeItems", arg |-> call.arg, out |-> "ok"])
          ELSE /\ call' = [call EXCEPT !.pending = @ \ {driverArea}]
               /\ UNCHANGED ret
  /\ UNCHANGED <<areas0, kCalls, input, itemVars, watchVars>>

\* The writing calls, each with one argument drawn at the start, followed by
\* snapshots, on areas whose keys hold a value, metadata, both or nothing.
WriteStores ==
  { ars \in [AreaNames -> [KeyNames -> {EmptyKey,
                                        [value |-> 1, meta |-> MetaObj(1, 1)],
                                        [value |-> Absent, meta |-> MetaObj(0, 1)]}]] :
      /\ ars["local"]["a"].value = 1
      /\ ars["local"]["b"].meta # NoMeta
      /\ ars["session"]["b"] = EmptyKey }
WriteInputs ==
  {[name |-> "setItems", arg |-> l] : l \in ListsOver(SetItemsEntries, MaxKeys)}
  \cup {[name |-> "removeItems", arg |-> l] :
          l \in ListsOver(RemoveItemsEntries, MaxKeys)}
  \cup {[name |-> "setItem", arg |-> a] : a \in SetItemArgs}
  \cup {[name |-> "removeItem", arg |-> a] : a \in RemoveItemArgs}

InitWrites == StorageInit(WriteStores, WriteInputs) /\ NoItem

NextWrites ==
  \/ SetItemsCall
  \/ SetItemsOfNothing
  \/ SetItemsArea
  \/ RemoveItemsCall
  \/ RemoveItemsOfNothing
  \/ RemoveItemsArea
  \/ input.name = "setItem" /\ StorageSetItem(input.arg)
  \/ input.name = "removeItem" /\ StorageRemoveItem(input.arg)
  \/ StorageRemoveItemMeta
  \/ \E base \in AreaNames : StorageSnapshot(base)

SpecWrites == InitWrites /\ [][NextWrites]_vars

\* ------------------------------------------------------ writes: claims
\* What the areas hold for a storage key, now and when the call was made.
CellNow(k) == areas[k.area][k.name]
CellBefore(k) == areas0[k.area][k.name]

\* C14: an entry of setItems whose value is null or undefined removes its
\* key: after the call the key is not in the area (the last entry of a key
\* deciding, when a key is named more than once).
C14_SetItemsNullRemoves ==
  ret.name = "setItems" =>
    \A i \in 1..Len(ret.arg) :
      (/\ ret.arg[i].value \in {Absent, Null}
       /\ \A j \in (i + 1)..Len(ret.arg) : ret.arg[j].key # ret.arg[i].key) =>
        CellNow(ret.arg[i].key).value = Absent

\* The keys a removeItems list names, and those it names with removeMeta.
Named(keys, k) == \E i \in 1..Len(keys) : keys[i].key = k
NamedWithMeta(keys, k) ==
  \E i \in 1..Len(keys) : keys[i].key = k /\ keys[i].removeMeta

\* C18: the metadata of a key does not follow its value. setItem leaves
\* every shadow key as it was; removeItem and removeItems remove the value
\* keys they are given, remove the shadow key of a key when asked to with
\* removeMeta and leave it as it was otherwise; no call touches the value or
\* the metadata of a key it was not given.
C18_MetaIndependentOfValue ==
  /\ ret.name = "setItem" =>
       \A k \in StorageKeys :
         /\ CellNow(k).meta = CellBefore(k).meta
         /\ k # ret.arg.key => CellNow(k) = CellBefore(k)
  /\ ret.name = "removeItem" =>
       \A k \in StorageKeys :
         IF k # ret.arg.key THEN CellNow(k) = CellBefore(k)
         ELSE /\ CellNow(k).value = Absent
              /\ CellNow(k).meta =
                   (IF ret.arg.removeMeta THEN NoMeta ELSE CellBefore(k).meta)
  /\ ret.name = "removeItems" =>
       \A k \in StorageKeys :
         IF ~Named(ret.arg, k) THEN CellNow(k) = CellBefore(k)
         ELSE /\ CellNow(k).value = Absent
              /\ CellNow(k).meta =
                   (IF NamedWithMeta(ret.arg, k) THEN NoMeta
                    ELSE CellBefore(k).meta)

\* removeItems has removed a value together with its metadata, and another
\* value whose metadata is still there, next to a key it was not given.
C18_Witness ==
  /\ ret.name = "removeItems"
  /\ \E k1, k2, k3 \in StorageKeys :
       /\ NamedWithMeta(ret.arg, k1)
       /\ CellBefore(k1).value # Absent /\ CellBefore(k1).meta # NoMeta
       /\ CellNow(k1) = [value |-> Absent, meta |-> NoMeta]
       /\ Named(ret.arg, k2) /\ ~NamedWithMeta(ret.arg, k2)
       /\ CellBefore(k2).value # Absent /\ CellNow(k2).value = Absent
       /\ CellNow(k2).meta # NoMeta
       /\ ~Named(ret.arg, k3) /\ CellNow(k3).meta # NoMeta

\* ------------------------------------------------------ metadata calls
\* What a shadow key can hold: nothing, null, a primitive, an array, or a
\* plain object with the fields v and a (0 = the object has no such field).
JsonNull == [shape |-> "null", v |-> 0, a |-> 0]
JsonPrimitive == [shape |-> "prim", v |-> 0, a |-> 0]
JsonArray == [shape |-> "array", v |-> 0, a |-> 0]
MetaContents ==
  {NoMeta, JsonNull, JsonPrimitive, JsonArray}
  \cup {MetaObj(v, a) : v \in 0..2, a \in 0..2}

\* The key the metadata calls are made on.
MetaCallKey == KeyOf("local", "a")

\* The properties given to setMeta: some of the fields, each with a value,
\* null or undefined.
SetMetaProperties ==
  UNION {[names -> {Absent, Null, 1, 2}] : names \in SUBSET {"v", "a"}}
\* The properties given to removeMeta: a list of field names.
RemoveMetaProperties == SUBSET {"v", "a"}

\* storage.getMeta(key): getMetaValue(await driver.getItem(metaKey))
StorageGetMeta ==
  LET r == resolveKey(MetaCallKey)
      res == Stored(areas, r.driverArea, getMetaKey(r.driverKey))
  IN  /\ Begins
      /\ Returns([name |-> "getMeta", arg |-> MetaCallKey, out |-> "ok",
                  val |-> getMetaValue(res)])
      /\ UNCHANGED <<areas, input, itemVars, watchVars>>

\* storage.setMeta(key, properties), first half:
\*   const existingFields = getMetaValue(await driver.getItem(metaKey))
\* The read is issued by the call; the merge follows it.
StorageSetMeta ==
  \E properties \in SetMetaProperties :
    /\ Begins
    /\ Suspends([name |-> "setMeta", arg |-> properties])
    /\ UNCHANGED <<areas, input, itemVars, watchVars>>

\* The read completes, the fields are merged, driver.setItem(metaKey,
\* newFields) is issued and completes.
StorageSetMetaWrite ==
  /\ call.name = "setMeta"
  /\ LET r == resolveKey(MetaCallKey)
         metaKey == getMetaKey(r.driverKey)
         existingFields == getMetaValue(Stored(areas, r.driverArea, metaKey))
         newFields == MergeMeta(existingFields, call.arg)
     IN  areas' = AreaSetItem(areas, r.driverArea, metaKey, newFields)
  /\ Returns([name |-> "setMeta", arg |-> call.arg, out |-> "ok"])
  /\ UNCHANGED <<areas0, kCalls, input, itemVars, watchVars>>

\* storage.removeMeta(key) with no properties: driver.removeItem(metaKey)
StorageRemoveMetaKey ==
  LET r == resolveKey(MetaCallKey) IN
  /\ Begins
  /\ areas' = AreaRemoveItem(areas, r.driverArea, getMetaKey(r.driverKey))
  /\ Returns([name |-> "removeMeta", all |-> TRUE, arg |-> {}, out |-> "ok"])
  /\ UNCHANGED <<input, itemVars, watchVars>>

\* storage.removeMeta(key, properties): the read is issued.
StorageRemoveMeta ==
  \E properties \in RemoveMetaProperties :
    /\ Begins
    /\ Suspends([name |-> "removeMeta", all |-> FALSE, arg |-> properties,
                 out |-> "pending"])
    /\ UNCHANGED <<areas, input, itemVars, watchVars>>

\*   const newFields = getMetaValue(await driver.getItem(metaKey));
\*   toArray(properties).forEach((field) => delete newFields[field]);
\*   await driver.setItem(metaKey, newFields);
\* delete null[field] raises a TypeError: with null read and a field to
\* delete the call fails before its write. With null read and no field,
\* driver.setItem(metaKey, null) removes the key.
StorageRemoveMetaWrite ==
  /\ call.name = "removeMeta"
  /\ LET r == resolveKey(MetaCallKey)
         metaKey == getMetaKey(r.driverKey)
         newFields == getMetaValue(Stored(areas, r.driverArea, metaKey))
     IN  IF newFields.shape = "null"
         THEN IF call.arg # {}
              THEN /\ UNCHANGED areas
                   /\ Returns([call EXCEPT !.out = "error"])
              ELSE /\ areas' = AreaRemoveItem(areas, r.driverArea, metaKey)
                   /\ Returns([call EXCEPT !.out = "ok"])
         ELSE /\ areas' = AreaSetItem(areas, r.driverArea, metaKey,
                                      MergeFields(newFields, call.arg, Null))
              /\ Returns([call EXCEPT !.out = "ok"])
  /\ UNCHANGED <<areas0, kCalls, input, itemVars, watchVars>>

\* storage.restoreSnapshot(base, data): area.set(data); data holds whatever
\* the caller has, here something under the shadow key.
StorageRestoreSnapshot ==
  \E x \in MetaContents \ {NoMeta} :
    LET r == resolveKey(MetaCallKey) IN
    /\ Begins
    /\ areas' = AreaSet(areas, r.driverArea,
                        <<[key |-> getMetaKey(r.driverKey), value |-> x]>>)
    /\ Returns([name |-> "restoreSnapshot", arg |-> x, out |-> "ok"])
    /\ UNCHANGED <<input, itemVars, watchVars>>

\* The metadata calls on one key, one after the other; the key has a value
\* or not, and nothing under its shadow key at first.
MetaStores ==
  { ars \in [AreaNames -> [KeyNames -> {EmptyKey, [EmptyKey EXCEPT !.value = 1]}]] :
      \A k \in StorageKeys : k # MetaCallKey => ars[k.area][k.name] = EmptyKey }

InitMeta == StorageInit(MetaStores, {<<>>}) /\ NoItem

NextMeta ==
  \/ StorageGetMeta
  \/ StorageSetMeta
  \/ StorageSetMetaWrite
  \/ StorageRemoveMetaKey
  \/ StorageRemoveMeta
  \/ StorageRemoveMetaWrite
  \/ StorageRestoreSnapshot

SpecMeta == InitMeta /\ [][NextMeta]_vars

\* ------------------------------------------------------ metadata: claims
\* What is under the shadow key of the key, and under the key, now and when
\* the call was made.
MetaNow == areas[MetaCallKey.area][MetaCallKey.name].meta
MetaBefore == areas0[MetaCallKey.area][MetaCallKey.name].meta
ValueNow == areas[MetaCallKey.area][MetaCallKey.name].value
ValueBefore == areas0[MetaCallKey.area][MetaCallKey.name].value

\* The field f of the mapping m; anything but a plain object has no field.
FieldOf(m, f) == IF m.shape = "object" THEN m[f] ELSE 0

\* C15: setMeta merges field by field. After setMeta(k, f) the shadow key
\* holds an object with every field of f that has a non-null value, at that
\* value, with no field that f names with null or undefined, and with every
\* other field of the existing mapping as it was.
C15_SetMetaMergesFields ==
  ret.name = "setMeta" =>
    /\ MetaNow.shape = "object"
    /\ \A f \in {"v", "a"} :
         MetaNow[f] = (IF f \notin DOMAIN ret.arg THEN FieldOf(MetaBefore, f)
                       ELSE IF ret.arg[f] \in {Absent, Null} THEN 0
                       ELSE ret.arg[f])
    /\ ValueNow = ValueBefore

\* setMeta(k, { a: 2 }) on a mapping that had the field v: both are there.
C15_Witness ==
  /\ ret.name = "setMeta" /\ DOMAIN ret.arg = {"a"} /\ ret.arg["a"] = 2
  /\ MetaBefore.shape = "object" /\ MetaBefore.v = 1 /\ MetaBefore.a # 2
  /\ MetaNow = [shape |-> "object", v |-> 1, a |-> 2]

\* C16: getMeta returns a plain mapping whatever the shadow key holds: the
\* stored object when it is a plain object, the empty mapping when the key
\* is absent or holds null, a primitive or an array; it never fails.
C16_GetMetaAlwaysMapping ==
  ret.name = "getMeta" =>
    /\ ret.out = "ok"
    /\ ret.val.shape = "object"
    /\ \A f \in {"v", "a"} : ret.val[f] = FieldOf(MetaNow, f)

MaxListeners == 2

\* The comparison left out: no two values are ever equal.
dequalNever(a, b) == FALSE

\* dequal(a, b): deep equality of two JSON values (undefined among them).
dequal(a, b) == a = b

\* The changes object of one onChanged notification of an area, for a write
\* that took the area from before to after: { oldValue, newValue } for each
\* key written whose value differs; echo is a backend that reports a key
\* written with the value it already held as well.
StorageChanges(before, after, area, keys, echo) ==
  [k \in { k \in keys : echo \/ Stored(before, area, k) # Stored(after, area, k) }
     |-> [oldValue |-> Stored(before, area, k),
          newValue |-> Stored(after, area, k)]]

\* area.onChanged has one more notification to dispatch, unless nothing is
\* reported.
Notified(evs, before, after, area, keys, echo) ==
  LET changes == StorageChanges(before, after, area, keys, echo) IN
  IF DOMAIN changes = {} THEN evs
  ELSE Append(evs, [area |-> area, changes |-> changes])

\* The listener that driver.watch(key, cb) creates, run on a changes object:
\* the arguments cb is called with, none when it returns early.
\*   const change = changes[key];
\*   if (change == null) return;
\*   if (dequal(change.newValue, change.oldValue)) return;
\*   cb(change.newValue ?? null, change.oldValue ?? null);
Listener(key, changes) ==
  IF key \notin DOMAIN changes THEN {}
  ELSE LET change == changes[key] IN
       IF dequal(change.newValue, change.oldValue) THEN {}
       ELSE {[newValue |-> OrNull(key, change.newValue),
              oldValue |-> OrNull(key, change.oldValue)]}

\* onChanged.addListener(listener), watchListeners.add(listener)
AddListener(registered, area, listener) ==
  [registered EXCEPT ![area] = @ \cup {listener}]

\* onChanged.removeListener(listener), watchListeners.delete(listener)
RemoveListener(registered, area, listener) ==
  [registered EXCEPT ![area] = @ \ {listener}]

\* The driver of the local area alone is asked to unwatch.
DriverUnwatchLocal(registered, area) ==
  IF area = "local" THEN [registered EXCEPT ![area] = @ \ watchListeners[area]]
  ELSE registered

\* driver.unwatch of one area: every listener of watchListeners is removed
\* from the area's onChanged.
DriverUnwatch(registered, area) ==
  [registered EXCEPT ![area] = @ \ watchListeners[area]]

\* storage.unwatch: Object.values(drivers).forEach(driver => driver.unwatch())
RECURSIVE UnwatchDrivers(_, _)
UnwatchDrivers(registered, driverAreas) ==
  IF driverAreas = {} THEN registered
  ELSE LET area == CHOOSE a \in driverAreas : TRUE IN
       UnwatchDrivers(DriverUnwatch(registered, area), driverAreas \ {area})

\* The keys a caller watches.
WatchKeys == {KeyOf("local", "a"), KeyOf("session", "a")}

\* storage.watch(key, cb): resolveKey, then driver.watch(driverKey, cb): a
\* new listener is added to the area's onChanged and to watchListeners; the
\* handle returned is the listener's number.
StorageWatch(key) ==
  LET r == resolveKey(key)
      listener == Len(listeners) + 1
  IN  /\ Len(listeners) < MaxListeners
      /\ listeners' = Append(listeners, [area |-> r.driverArea,
                                         key |-> r.driverKey,
                                         ended |-> FALSE])
      /\ onChanged' = AddListener(onChanged, r.driverArea, listener)
      /\ watchListeners' = AddListener(watchListeners, r.driverArea, listener)
      /\ UNCHANGED <<events, fired, storageVars, itemVars>>

\* The handle that watch returned is called: the listener is removed from
\* onChanged and deleted from watchListeners.
Unwatch(listener) ==
  LET area == listeners[listener].area IN
  /\ listeners' = [listeners EXCEPT ![listener].ended = TRUE]
  /\ onChanged' = RemoveListener(onChanged, area, listener)
  /\ watchListeners' = RemoveListener(watchListeners, area, listener)
  /\ UNCHANGED <<events, fired, storageVars, itemVars>>

\* storage.unwatch(): every driver removes its listeners and clears its set.
StorageUnwatch ==
  /\ listeners' = [l \in DOMAIN listeners |-> [listeners[l] EXCEPT !.ended = TRUE]]
  /\ onChanged' = UnwatchDrivers(onChanged, AreaNames)
  /\ watchListeners' = [area \in AreaNames |-> {}]
  /\ UNCHANGED <<events, fired, storageVars, itemVars>>

\* storage.setItem(key, value) on a backend that notifies: the write and the
\* notification it queues.
WatchArgs ==
  [key : {KeyOf("local", "a"), KeyOf("local", "b"), KeyOf("session", "a")},
   value : {Null, 1, 2}]

WatchedSetItem(arg, echo) ==
  LET r == resolveKey(arg.key)
      value == IF Nullish(arg.value) THEN Null ELSE arg.value
      after == AreaSetItem(areas, r.driverArea, r.driverKey, value)
  IN  /\ Begins
      /\ areas' = after
      /\ events' = Notified(events, areas, after, r.driverArea,
                            {r.driverKey}, echo)
      /\ Returns([name |-> "setItem", arg |-> arg, out |-> "ok"])
      /\ UNCHANGED <<input, itemVars, listeners, onChanged, watchListeners, fired>>

\* The write of one area of storage.setItems completes on a backend that
\* notifies: one notification for all the keys of the area.
WatchedSetItemsArea(echo) ==
  /\ call.name = "setItems"
  /\ \E driverArea \in call.pending :
       LET values == AreaToKeyValueMap(call.arg, driverArea)
           after == AreaSetItems(areas, driverArea, values)
       IN  /\ areas' = after
           /\ events' = Notified(events, areas, after, driverArea,
                                 { values[i].key : i \in 1..Len(values) }, echo)
           /\ IF call.pending = {driverArea}
              THEN Returns([name |-> "setItems", arg |-> call.arg, out |-> "ok"])
              ELSE /\ call' = [call EXCEPT !.pending = @ \ {driverArea}]
                   /\ UNCHANGED ret
  /\ UNCHANGED <<areas0, kCalls, input, itemVars, listeners, onChanged,
                 watchListeners, fired>>

\* The backend dispatches its oldest notification: every listener registered
\* with the area's onChanged runs on it.
Dispatch ==
  /\ events # <<>>
  /\ LET event == Head(events) IN
     fired' = <<[event |-> event,
                 ran |-> onChanged[event.area],
                 calls |-> UNION {
                   { [listener |-> l, newValue |-> c.newValue,
                      oldValue |-> c.oldValue] :
                       c \in Listener(listeners[l].key, event.changes) } :
                     l \in onChanged[event.area] }]>>
  /\ events' = Tail(events)
  /\ UNCHANGED <<listeners, onChanged, watchListeners, storageVars, itemVars>>

\* Nothing stored yet; the caller of setItems writes two keys of one area.
WatchStores == {[area \in AreaNames |-> [name \in KeyNames |-> EmptyKey]]}
WatchInputs ==
  {[name |-> "setItems",
    arg |-> <<[key |-> KeyOf("local", "a"), value |-> 2],
              [key |-> KeyOf("local", "b"), value |-> 2]>>]}

InitWatch == StorageInit(WatchStores, WatchInputs) /\ NoItem

NextWatch ==
  \/ \E key \in WatchKeys : StorageWatch(key)
  \/ \E listener \in DOMAIN listeners : Unwatch(listener)
  \/ StorageUnwatch
  \/ \E arg \in WatchArgs, echo \in BOOLEAN : WatchedSetItem(arg, echo)
  \/ SetItemsCall
  \/ \E echo \in BOOLEAN : WatchedSetItemsArea(echo)
  \/ Dispatch

SpecWatch == InitWatch /\ [][NextWatch]_vars

\* The last notification dispatched, the listeners that ran on it, and the
\* invocations of the callback of listener l among those it caused.
LastEvent == fired[1].event
LastRan == fired[1].ran
CallsOf(l) == { c \in fired[1].calls : c.listener = l }
JsonOrNull(x) == IF x = -1 THEN 0 ELSE x

\* C19: the callback of a watch on key k is invoked by a notification only
\* when the notification is of k's area, contains k, and reports an old and
\* a new value that differ; it is then invoked once, with the new and the
\* old value (null for a missing one). A notification of a write that left
\* k's value as it was, or of another key, invokes nothing.
C19_WatchFiresOnRealChange ==
  fired # <<>> =>
    /\ \A c \in fired[1].calls : c.listener \in LastRan
    /\ \A l \in LastRan :
         LET key == listeners[l].key
             real == /\ listeners[l].area = LastEvent.area
                     /\ key \in DOMAIN LastEvent.changes
                     /\ LastEvent.changes[key].oldValue #
                          LastEvent.changes[key].newValue
         IN  CallsOf(l) =
               (IF real
                THEN {[listener |-> l,
                       newValue |-> JsonOrNull(LastEvent.changes[key].newValue),
                       oldValue |-> JsonOrNull(LastEvent.changes[key].oldValue)]}
                ELSE {})

\* A notification that reports key a written with the value it held has been
\* dispatched to a listener of a, and no callback was invoked.
C19_Witness ==
  /\ fired # <<>>
  /\ \E l \in LastRan :
       /\ listeners[l].key \in DOMAIN LastEvent.changes
       /\ LastEvent.changes[listeners[l].key].oldValue = 2
       /\ LastEvent.changes[listeners[l].key].newValue = 2
  /\ fired[1].calls = {}

\* C20: a subscription ended by its handle or by storage.unwatch() has its
\* callback invoked by no notification dispatched afterwards, whatever the
\* area; a subscription that has not been ended is invoked by every
\* notification of a real change of its key, whatever other subscriptions
\* (on the same key included) have been ended; and an ended subscription
\* stays ended.
C20_EndedNeverFires ==
  [][/\ \A l \in DOMAIN listeners : listeners[l].ended => listeners'[l].ended
     /\ Len(events') < Len(events) =>
          \A l \in DOMAIN listeners :
            LET key == listeners[l].key
                event == Head(events)
                real == /\ listeners[l].area = event.area
                        /\ key \in DOMAIN event.changes
                        /\ event.changes[key].oldValue #
                             event.changes[key].newValue
                invoked == \E c \in fired'[1].calls : c.listener = l
            IN  /\ fired'[1].event = event
                /\ listeners[l].ended => ~invoked
                /\ (~listeners[l].ended /\ real) => invoked]_vars

\* Two subscriptions on one key, the first ended: a real change of the key
\* has been dispatched, and the callback of the second alone was invoked.
C20_Witness ==
  /\ Len(listeners) = 2
  /\ listeners[1].key = listeners[2].key /\ listeners[1].area = listeners[2].area
  /\ listeners[1].ended /\ ~listeners[2].ended
  /\ fired # <<>>
  /\ LastRan = {2}
  /\ { c.listener : c \in fired[1].calls } = {2}

\* ------------------------------------------------------ keys as strings
\* A string is the sequence of its characters.
LocalText == <<"l", "o", "c", "a", "l">>
SessionText == <<"s", "e", "s", "s", "i", "o", "n">>
SyncText == <<"s", "y", "n", "c">>
ManagedText == <<"m", "a", "n", "a", "g", "e", "d">>
Delimiter == <<":">>

\* const drivers = { local, session, sync, managed }: the area each name
\* gives.
drivers ==
  (LocalText :> "local") @@ (SessionText :> "session") @@
  (SyncText :> "sync") @@ (ManagedText :> "managed")

\* getDriver: drivers[area], an error when there is none.
getDriver(area) ==
  IF area \in DOMAIN drivers THEN [error |-> "none", area |-> drivers[area]]
  ELSE [error |-> "Invalid area", area |-> "none"]

\* String.prototype.indexOf of a character: the 0-based index of its first
\* occurrence, -1 when there is none.
indexOf(text, char) ==
  IF \E i \in 1..Len(text) : text[i] = char
  THEN (CHOOSE i \in 1..Len(text) :
          text[i] = char /\ \A j \in 1..(i - 1) : text[j] # char) - 1
  ELSE -1

\* String.prototype.substring(start, end): each index is clamped to
\* 0..length, and the two are swapped when start > end.
Clamped(text, index) ==
  IF index < 0 THEN 0 ELSE IF index > Len(text) THEN Len(text) ELSE index
substring(text, start, end) ==
  LET from == Clamped(text, start)
      to == Clamped(text, end)
  IN  IF from <= to THEN SubSeq(text, from + 1, to)
      ELSE SubSeq(text, to + 1, from)

\* resolveKey of a key string:
\*   const deliminatorIndex = key.indexOf(':');
\*   const driverArea = key.substring(0, deliminatorIndex);
\*   const driverKey = key.substring(deliminatorIndex + 1);
\*   if (driverKey == null) throw Error(...)
\*   return { driverArea, driverKey, driver: getDriver(driverArea) };
\* substring gives a string for every key, the empty one included, so the
\* check of driverKey never throws; what can throw is getDriver.
resolveKeyString(key) ==
  LET deliminatorIndex == indexOf(key, ":")
      driverArea == substring(key, 0, deliminatorIndex)
      driverKey == substring(key, deliminatorIndex + 1, Len(key))
      driver == getDriver(driverArea)
  IN  [error |-> driver.error, driverArea |-> driver.area,
       driverKey |-> [name |-> driverKey, shadow |-> FALSE]]

\* String.prototype.split(':'): the pieces between the delimiters.
RECURSIVE split(_, _)
split(text, char) ==
  LET index == indexOf(text, char) IN
  IF index = -1 THEN <<text>>
  ELSE <<substring(text, 0, index)>>
       \o split(substring(text, index + 1, Len(text)), char)

\* The key strings callers pass: well formed ("local:a", "session:a",
\* "local:a:b"), with an empty local key ("local:"), with no delimiter ("a"),
\* with an unknown area ("foo:a") and with no area (":a").
WellFormedKeys ==
  {LocalText \o Delimiter \o <<"a">>,
   SessionText \o Delimiter \o <<"a">>,
   LocalText \o Delimiter \o <<"a", ":", "b">>}
KeyStrings ==
  WellFormedKeys
  \cup {LocalText \o Delimiter, <<"a">>, <<"f", "o", "o", ":", "a">>, <<":", "a">>}

\* The driver keys of these key strings.
KeyTexts == {<<"a">>, <<"a", ":", "b">>, <<>>}

\* One backend call: the area, the method, and the driver keys it names.
BackendCall(area, method, keys) == [area |-> area, method |-> method, keys |-> keys]

\* storage.getItem(key) of a key string.
KeyGetItem(key) ==
  LET r == resolveKeyString(key) IN
  /\ Begins
  /\ IF r.error # "none"
     THEN Returns([name |-> "getItem", arg |-> key, out |-> "error",
                   calls |-> {}])
     ELSE Returns([name |-> "getItem", arg |-> key, out |-> "ok",
                   val |-> getValueOrFallback(
                             Stored(areas, r.driverArea, r.driverKey), Absent),
                   calls |-> {BackendCall(r.driverArea, "get", {r.driverKey})}])
  /\ UNCHANGED <<areas, input, itemVars, watchVars>>

\* storage.setItem(key, value) of a key string.
KeySetItem(key, value) ==
  LET r == resolveKeyString(key) IN
  /\ Begins
  /\ IF r.error # "none"
     THEN /\ Returns([name |-> "setItem", arg |-> key, out |-> "error",
                      calls |-> {}])
          /\ UNCHANGED areas
     ELSE /\ areas' = AreaSetItem(areas, r.driverArea, r.driverKey, value)
          /\ Returns([name |-> "setItem", arg |-> key, out |-> "ok",
                      calls |-> {BackendCall(r.driverArea,
                                             IF Nullish(value) THEN "remove"
                                             ELSE "set", {r.driverKey})}])
  /\ UNCHANGED <<input, itemVars, watchVars>>

\* areaToKeyValueMap of storage.setItems, for key strings that all resolve.
RECURSIVE AreaToKeyValueMapOfStrings(_, _)
AreaToKeyValueMapOfStrings(values, area) ==
  IF values = <<>> THEN <<>>
  ELSE LET r == resolveKeyString(Head(values).key) IN
       (IF r.driverArea = area
        THEN <<[key |-> r.driverKey, value |-> Head(values).value]>> ELSE <<>>)
       \o AreaToKeyValueMapOfStrings(Tail(values), area)

\* One driver.setItems for every area that has an entry.
RECURSIVE SetItemsOfAreas(_, _, _)
SetItemsOfAreas(ars, values, driverAreas) ==
  IF driverAreas = {} THEN ars
  ELSE LET area == CHOOSE a \in driverAreas : TRUE
           entries == AreaToKeyValueMapOfStrings(values, area)
       IN  SetItemsOfAreas(IF entries = <<>> THEN ars
                           ELSE AreaSetItems(ars, area, entries),
                           values, driverAreas \ {area})

\* storage.setItems(values) of key strings: values.forEach resolves every
\* key, and throws at the first that does not resolve, before any
\* driver.setItems; then the areas are written. No other call runs
\* meanwhile, and the call is taken in one step.
KeySetItems(values) ==
  /\ Begins
  /\ IF \E i \in 1..Len(values) : resolveKeyString(values[i].key).error # "none"
     THEN /\ Returns([name |-> "setItems", arg |-> values, out |-> "error",
                      calls |-> {}])
          /\ UNCHANGED areas
     ELSE /\ areas' = SetItemsOfAreas(areas, values, AreaNames)
          /\ Returns([name |-> "setItems", arg |-> values, out |-> "ok",
                      calls |->
                        { BackendCall(area, "set",
                            { e.key : e \in
                                { AreaToKeyValueMapOfStrings(values, area)[i] :
                                    i \in 1..Len(AreaToKeyValueMapOfStrings(values, area)) } }) :
                          area \in { a \in AreaNames :
                                       AreaToKeyValueMapOfStrings(values, a) # <<>> } }])
  /\ UNCHANGED <<input, itemVars, watchVars>>

\* storage.getMeta(key) of a key string: resolveKey, then
\* getMetaValue(await driver.getItem(getMetaKey(driverKey))).
KeyGetMeta(key) ==
  LET r == resolveKeyString(key)
      metaKey == getMetaKey(r.driverKey)
  IN  /\ Begins
      /\ IF r.error # "none"
         THEN Returns([name |-> "getMeta", arg |-> key, out |-> "error",
                       calls |-> {}])
         ELSE Returns([name |-> "getMeta", arg |-> key, out |-> "ok",
                       val |-> getMetaValue(Stored(areas, r.driverArea, metaKey)),
                       calls |-> {BackendCall(r.driverArea, "get", {metaKey})}])
      /\ UNCHANGED <<areas, input, itemVars, watchVars>>

\* The keys an item can be defined with: defineItem resolves its key first.
ItemKeys == { key \in KeyStrings : resolveKeyString(key).error = "none" }

\* The items given to getItemMetas: Object.entries(items), each the name of
\* the property and the key of the item.
ItemEntries == [name : {"x", "y"}, key : ItemKeys]
ItemsGiven ==
  { items \in ListsOver(ItemEntries, 2) :
      \A i, j \in 1..Len(items) : items[i].name = items[j].name => i = j }

\* What getItemMetas addresses for one item:
\*   const [storageArea] = item.key.split(':');
\*   storageKey: item.key.split(':')[1]
\*   getMetaKey(item.storageKey)
ItemStorageArea(item) == getDriver(split(item.key, ":")[1]).area
ItemMetaKey(item) ==
  getMetaKey([name |-> split(item.key, ":")[2], shadow |-> FALSE])

\* What getItemMetas gives for one item: the area's getItems answers
\* result[key] ?? null for the meta key, and the item gets
\* getMetaValue(value) ?? {}.
ItemMeta(ars, item) ==
  LET metaKey == ItemMetaKey(item)
      value == OrNull(metaKey, Stored(ars, ItemStorageArea(item), metaKey))
      meta == getMetaValue(value)
  IN  IF meta.shape = "null" THEN MetaObj(0, 0) ELSE meta

\* storage.getItemMetas(items): the areas are read one after the other, and
\* the results are given in the order of the items, each under the name of
\* its property. No other call runs meanwhile, and the call is taken in one
\* step.
KeyGetItemMetas(items) ==
  /\ Begins
  /\ Returns([name |-> "getItemMetas", arg |-> items, out |-> "ok",
              val |-> [i \in 1..Len(items) |->
                         [key |-> items[i].name,
                          value |-> ItemMeta(areas, items[i])]],
              calls |-> { BackendCall(area, "get",
                            { ItemMetaKey(items[i]) :
                                i \in { i \in 1..Len(items) :
                                          ItemStorageArea(items[i]) = area } }) :
                          area \in { ItemStorageArea(items[i]) :
                                       i \in 1..Len(items) } }])
  /\ UNCHANGED <<areas, input, itemVars, watchVars>>

\* The areas the calls on key strings are made over.
KeyStringCells == {EmptyKey, [value |-> 1, meta |-> MetaObj(1, 0)],
                   [value |-> 2, meta |-> MetaObj(2, 1)]}
KeyStringStores ==
  { ars \in [AreaNames -> [KeyTexts -> KeyStringCells \cup
                                        {[value |-> 3, meta |-> JsonNull]}]] :
      /\ ars["local"][<<>>] = EmptyKey
      /\ ars["local"][<<"a">>] \in KeyStringCells
      /\ ars["local"][<<"a", ":", "b">>] \in KeyStringCells
      /\ ars["session"][<<"a">>] \in {EmptyKey, [value |-> 3, meta |-> JsonNull]}
      /\ ars["session"][<<"a", ":", "b">>] = EmptyKey
      /\ ars["session"][<<>>] = EmptyKey }

SetItemsOfStrings == ListsOver([key : KeyStrings, value : {2}], 2)

InitKeys == StorageInit(KeyStringStores, {<<>>}) /\ NoItem

NextKeys ==
  \/ \E key \in KeyStrings : KeyGetItem(key)
  \/ \E key \in KeyStrings, value \in {Null, 2} : KeySetItem(key, value)
  \/ \E values \in SetItemsOfStrings : KeySetItems(values)
  \/ \E key \in KeyStrings : KeyGetMeta(key)
  \/ \E items \in ItemsGiven : KeyGetItemMetas(items)

SpecKeys == InitKeys /\ [][NextKeys]_vars

\* A key string is malformed: it has no ":", or what precedes its first ":"
\* is none of the four areas, or nothing follows its first ":".
FirstDelimiter(key) ==
  CHOOSE i \in 1..Len(key) : key[i] = ":" /\ \A j \in 1..(i - 1) : key[j] # ":"
HasDelimiter(key) == \E i \in 1..Len(key) : key[i] = ":"
UnknownArea(key) ==
  HasDelimiter(key) /\
    SubSeq(key, 1, FirstDelimiter(key) - 1) \notin
      {LocalText, SessionText, SyncText, ManagedText}
EmptyLocalKey(key) == HasDelimiter(key) /\ FirstDelimiter(key) = Len(key)
Malformed(key) == ~HasDelimiter(key) \/ UnknownArea(key) \/ EmptyLocalKey(key)

\* The key strings a call was given.
KeysGiven ==
  IF ret.name \in {"getItem", "setItem", "getMeta"} THEN {ret.arg}
  ELSE IF ret.name = "setItems" THEN { ret.arg[i].key : i \in 1..Len(ret.arg) }
  ELSE {}

\* C21: a call given a malformed key (no delimiter, an unknown area, or an
\* empty local key such as "local:") ends in an error, having issued no
\* backend call and changed nothing.
C21_MalformedKeyFailsEagerly ==
  (\E key \in KeysGiven : Malformed(key)) =>
    /\ ret.out = "error"
    /\ ret.calls = {}
    /\ areas = areas0

\* The same for the keys with no delimiter or with an unknown area: these
\* do fail, before any backend call.
C21_UnknownAreaFailsEagerly ==
  (\E key \in KeysGiven : ~HasDelimiter(key) \/ UnknownArea(key)) =>
    /\ ret.out = "error"
    /\ ret.calls = {}
    /\ areas = areas0

\* C26: what getItemMetas returns for an item is what getMeta(item.key)
\* returns in the same backend state, also for an item whose local key
\* contains the delimiter.
C26_GetItemMetasAgreesWithGetMeta ==
  ret.name = "getItemMetas" =>
    \A i \in 1..Len(ret.arg) :
      LET r == resolveKeyString(ret.arg[i].key) IN
      /\ ret.val[i].key = ret.arg[i].name
      /\ ret.val[i].value =
           getMetaValue(Stored(areas, r.driverArea, getMetaKey(r.driverKey)))

\* The same for the items whose local key has no delimiter in it and whose
\* shadow key does not hold null.
C26_AgreesForPlainKeys ==
  ret.name = "getItemMetas" =>
    \A i \in 1..Len(ret.arg) :
      LET r == resolveKeyString(ret.arg[i].key)
          stored == Stored(areas, r.driverArea, getMetaKey(r.driverKey))
      IN  (~HasDelimiter(r.driverKey.name) /\ stored.shape # "null") =>
            /\ ret.val[i].key = ret.arg[i].name
            /\ ret.val[i].value = getMetaValue(stored)

\* ------------------------------------------------------ batches that fail
\* The batched calls over several areas, on a backend whose calls can be
\* rejected. Keys are records here, [area, name], and an item's key splits
\* into its area and its name.
\* The areas of a list of entries, in the order a Map keyed by area gets
\* them: the order of their first entries.
RECURSIVE AreaOrder(_)
AreaOrder(entries) ==
  IF entries = <<>> THEN <<>>
  ELSE LET rest == AreaOrder(SubSeq(entries, 1, Len(entries) - 1))
           area == entries[Len(entries)].key.area
       IN  IF \E i \in 1..Len(rest) : rest[i] = area THEN rest
           ELSE Append(rest, area)

\* Promise.all(Array.from(map.entries()).map(async ...)): every area's
\* backend call is issued before the first await resumes.
AllAtOnce(name, arg) ==
  LET order == AreaOrder(arg) IN
  [name |-> name, arg |-> arg,
   waiting |-> <<>>,
   pending |-> { order[i] : i \in 1..Len(order) },
   issued |-> { order[i] : i \in 1..Len(order) },
   failed |-> {}, took |-> {}]

\* for (const [storageArea, itemList] of map.entries()) { ... await ... }:
\* the call of an area is issued when the one before it has been answered.
OneByOne(name, arg) ==
  LET order == AreaOrder(arg) IN
  [name |-> name, arg |-> arg,
   waiting |-> Tail(order),
   pending |-> {Head(order)},
   issued |-> {Head(order)},
   failed |-> {}, took |-> {}]

\* The backend answers the last call of an area, with success or a
\* rejection. A rejection rejects the call as a whole, and the calls of the
\* other areas that are in flight go on; in a for-of loop the rejection is
\* thrown out of the loop, and the areas that wait are never called. After a
\* success the loop goes on to the area that waits next.
AreaAnswered(c, area, ok) ==
  LET next == IF ok /\ c.waiting # <<>> THEN {Head(c.waiting)} ELSE {} IN
  [c EXCEPT !.pending = (@ \ {area}) \cup next,
            !.issued = @ \cup next,
            !.waiting = IF ok /\ c.waiting # <<>> THEN Tail(c.waiting) ELSE <<>>,
            !.failed = IF ok THEN @ ELSE @ \cup {area},
            !.took = IF ok THEN @ \cup {area} ELSE @]

\* What the caller has of the call: nothing while every call issued is
\* pending or has succeeded, the rejection from the first failure on, the
\* result when every area has succeeded.
Outcome(c) ==
  [name |-> c.name, arg |-> c.arg,
   out |-> IF c.failed # {} THEN "error" ELSE "ok",
   issued |-> c.issued, failed |-> c.failed, took |-> c.took]

\* The call goes on as c, or ends when nothing is in flight any more.
GoesOn(c) ==
  /\ call' = IF c.pending = {} THEN NoCall ELSE c
  /\ ret' = IF c.failed # {} \/ c.pending = {} THEN Outcome(c) ELSE ret

\* storage.getItems(keys) is called.
BatchGetItems ==
  /\ input.name = "getItems"
  /\ Begins
  /\ Suspends(AllAtOnce("getItems", input.arg))
  /\ UNCHANGED <<areas, input, itemVars, watchVars>>

\* One area's driver.getItems is answered.
BatchGetItemsArea(ok) ==
  /\ call.name = "getItems"
  /\ \E driverArea \in call.pending : GoesOn(AreaAnswered(call, driverArea, ok))
  /\ UNCHANGED <<areas, areas0, kCalls, input, itemVars, watchVars>>

\* storage.setItems(values) is called.
BatchSetItems ==
  /\ input.name = "setItems"
  /\ Begins
  /\ Suspends(AllAtOnce("setItems", input.arg))
  /\ UNCHANGED <<areas, input, itemVars, watchVars>>

\* One area's driver.setItems is answered: written, or rejected with
\* nothing written.
BatchSetItemsArea(ok) ==
  /\ call.name = "setItems"
  /\ \E driverArea \in call.pending :
       /\ areas' = IF ok
                   THEN AreaSetItems(areas, driverArea,
                                     AreaToKeyValueMap(call.arg, driverArea))
                   ELSE areas
       /\ GoesOn(AreaAnswered(call, driverArea, ok))
  /\ UNCHANGED <<areas0, kCalls, input, itemVars, watchVars>>

\* storage.getItemMetas(items) is called: the first area's driver.getItems
\* is issued.
BatchGetItemMetas ==
  /\ input.name = "getItemMetas"
  /\ Begins
  /\ Suspends(OneByOne("getItemMetas", input.arg))
  /\ UNCHANGED <<areas, input, itemVars, watchVars>>

\* The area's driver.getItems is answered.
BatchGetItemMetasArea(ok) ==
  /\ call.name = "getItemMetas"
  /\ \E storageArea \in call.pending : GoesOn(AreaAnswered(call, storageArea, ok))
  /\ UNCHANGED <<areas, areas0, kCalls, input, itemVars, watchVars>>

\* metaUpdates of one area in setItemMetas: for every update of the area,
\* the meta key and the fields merged into what the area holds,
\* existingMetaMap.get(metaKey) ?? {}.
RECURSIVE MetaUpdates(_, _, _)
MetaUpdates(ars, updates, area) ==
  IF updates = <<>> THEN <<>>
  ELSE LET r == resolveKey(Head(updates).key)
           metaKey == getMetaKey(r.driverKey)
           existingFields ==
             getMetaValue(OrNull(metaKey, Stored(ars, area, metaKey)))
       IN  (IF r.driverArea = area
            THEN <<[key |-> metaKey,
                    value |-> MergeMeta(existingFields, Head(updates).properties)]>>
            ELSE <<>>)
           \o MetaUpdates(ars, Tail(updates), area)

\* storage.setItemMetas(items, metas) is called: every area's
\* driver.getItems(metaKeys) is issued.
BatchSetItemMetas ==
  /\ input.name = "setItemMetas"
  /\ Begins
  /\ Suspends([AllAtOnce("setItemMetas", input.arg) EXCEPT
                 !.name = "setItemMetas"] @@
              [reading |-> { input.arg[i].key.area : i \in 1..Len(input.arg) },
               metaUpdates |-> [area \in AreaNames |-> <<>>]])
  /\ UNCHANGED <<areas, input, itemVars, watchVars>>

\* One area's read is answered: the fields are merged and driver.setItems
\* is issued; or the read is rejected, and the area is not written.
BatchSetItemMetasRead(ok) ==
  /\ call.name = "setItemMetas"
  /\ \E storageArea \in call.pending \cap call.reading :
       IF ok
       THEN /\ call' = [call EXCEPT
                          !.reading = @ \ {storageArea},
                          !.metaUpdates[storageArea] =
                             MetaUpdates(areas, call.arg, storageArea)]
            /\ UNCHANGED ret
       ELSE GoesOn([AreaAnswered(call, storageArea, FALSE) EXCEPT
                      !.reading = @ \ {storageArea}])
  /\ UNCHANGED <<areas, areas0, kCalls, input, itemVars, watchVars>>

\* One area's driver.setItems(metaUpdates) is answered.
BatchSetItemMetasWrite(ok) ==
  /\ call.name = "setItemMetas"
  /\ \E storageArea \in call.pending \ call.reading :
       /\ areas' = IF ok
                   THEN AreaSetItems(areas, storageArea,
                                     call.metaUpdates[storageArea])
                   ELSE areas
       /\ GoesOn(AreaAnswered(call, storageArea, ok))
  /\ UNCHANGED <<areas0, kCalls, input, itemVars, watchVars>>

\* The areas and the arguments of the batched calls: one or two entries, over
\* one area or two.
BatchKeys == {KeyOf("local", "a"), KeyOf("session", "a"), KeyOf("local", "b")}
BatchStores ==
  { ars \in [AreaNames -> [KeyNames -> {EmptyKey,
                                        [value |-> 1, meta |-> MetaObj(1, 1)]}]] :
      \A area \in AreaNames : ars[area]["b"] = EmptyKey }
NonEmptyListsOver(entries) == ListsOver(entries, 2) \ {<<>>}
DistinctKeys(entries) ==
  \A i, j \in 1..Len(entries) : entries[i].key = entries[j].key => i = j
BatchInputs ==
  {[name |-> "getItems", arg |-> l] :
     l \in NonEmptyListsOver({ e \in GetItemsEntries : e.form \in {"string", "item"} })}
  \cup {[name |-> "setItems", arg |-> l] :
     l \in NonEmptyListsOver([key : BatchKeys, value : {2}])}
  \cup {[name |-> "getItemMetas", arg |-> l] :
     l \in { l \in NonEmptyListsOver([key : BatchKeys]) : DistinctKeys(l) }}
  \cup {[name |-> "setItemMetas", arg |-> l] :
     l \in { l \in NonEmptyListsOver([key : BatchKeys,
                                      properties : {[a |-> 2], [v |-> 2]}]) :
               DistinctKeys(l) }}

InitBatch == StorageInit(BatchStores, BatchInputs) /\ NoItem

NextBatch ==
  \/ BatchGetItems
  \/ \E ok \in BOOLEAN : BatchGetItemsArea(ok)
  \/ BatchSetItems
  \/ \E ok \in BOOLEAN : BatchSetItemsArea(ok)
  \/ BatchGetItemMetas
  \/ \E ok \in BOOLEAN : BatchGetItemMetasArea(ok)
  \/ BatchSetItemMetas
  \/ \E ok \in BOOLEAN : BatchSetItemMetasRead(ok)
  \/ \E ok \in BOOLEAN : BatchSetItemMetasWrite(ok)

SpecBatch == InitBatch /\ [][NextBatch]_vars

\* The areas that the entries of an argument name, and what a write of the
\* area that took effect has left in it.
ArgAreas(arg) == { arg[i].key.area : i \in 1..Len(arg) }
FieldBefore(key, f) ==
  IF areas0[key.area][key.name].meta.shape = "object"
  THEN areas0[key.area][key.name].meta[f] ELSE 0
Written(area) ==
  \A i \in 1..Len(ret.arg) :
    LET key == ret.arg[i].key IN
    key.area = area =>
      CASE ret.name = "setItems" ->
             areas[area][key.name].value = ret.arg[i].value
        [] ret.name = "setItemMetas" ->
             /\ areas[area][key.name].meta.shape = "object"
             /\ \A f \in {"v", "a"} :
                  areas[area][key.name].meta[f] =
                    (IF f \in DOMAIN ret.arg[i].properties
                     THEN ret.arg[i].properties[f] ELSE FieldBefore(key, f))
        [] OTHER -> TRUE

\* For the batched calls of the given names: the backend call of every area
\* of the argument has been issued as soon as the call is made; when
\* nothing is in flight any more, every area that did not fail has taken
\* effect, a failed area is as it was, and the caller has an error exactly
\* when some area failed.
BatchesIndependent(names) ==
  /\ call.name \in names => call.issued = ArgAreas(call.arg)
  /\ (ret.name \in names /\ call = NoCall) =>
       /\ ret.issued = ArgAreas(ret.arg)
       /\ ret.took = ArgAreas(ret.arg) \ ret.failed
       /\ ret.out = "error" <=> ret.failed # {}
       /\ \A area \in ret.took : Written(area)
       /\ \A area \in ret.failed : areas[area] = areas0[area]

\* C22: in getItems, setItems, getItemMetas and setItemMetas the backend
\* calls of the areas are dispatched together, the failure of one area's
\* call keeps no other area's call from being issued and taking effect, and
\* the caller gets the failure.
C22_AreaBatchesIndependent ==
  BatchesIndependent({"getItems", "setItems", "getItemMetas", "setItemMetas"})

\* The same for the three calls that go through Promise.all.
C22_PromiseAllBatchesIndependent ==
  BatchesIndependent({"getItems", "setItems", "setItemMetas"})

\* ------------------------------------------------------ concurrent setMeta
\* Two callers of one item's setMeta, each naming one field; the item has
\* neither migrations nor init.
SetMetaArgs ==
  {[NoArg EXCEPT !.fields = {f}, !.val = x] : f \in {"a", "v"}, x \in {1, 2}}

\* item.setMeta(properties) is called: await migrationsDone, then
\* setMeta(driver, driverKey, properties).
CallSetMeta(p) ==
  /\ pc[p] = "idle"
  /\ nCalls < MaxCalls
  /\ \E arg \in SetMetaArgs :
       LET o == [name |-> "setMeta", arg |-> arg] IN
       /\ op' = [op EXCEPT ![p] = o]
       /\ called' = called \cup {o}
       /\ IF AwaitMigrationsDone
          THEN Enter(p, o)
          ELSE pc' = [pc EXCEPT ![p] = "gate"] /\ UNCHANGED mutexQ
  /\ nCalls' = nCalls + 1
  /\ UNCHANGED <<storageVars, watchVars, cfg, store, store0, migDone, migLogged,
                 loc, last, initCalls, initWrites>>

SetMetaConfigs ==
  { c \in ConfigsOver({}) : ~c.hasMigs /\ ~c.hasInit /\ c.target = 1 }
SetMetaStores ==
  [value : {1}, meta : {NoMeta, MetaObj(0, 0), MetaObj(1, 0), MetaObj(0, 1)}]

InitSetMeta == InitOver(SetMetaConfigs, SetMetaStores)

NextSetMeta ==
  \/ GetOrInitRead(Def)
  \/ \E p \in Callers : CallSetMeta(p)
  \/ \E p \in Callers : SetMetaRead(p)
  \/ \E p \in Callers : SetMetaWrite(p)

SpecSetMeta == InitSetMeta /\ [][NextSetMeta]_vars

\* Caller p's setMeta writes in this step.
WritesMeta(p) == pc[p] = "set_meta_write" /\ pc'[p] # "set_meta_write"

\* The two callers have each called setMeta once, on different fields, and
\* both calls have finished.
BothSetMetaDone ==
  /\ nCalls = 2
  /\ \A p \in Callers : pc[p] = "idle"
  /\ { o.arg.fields : o \in called } = {{"a"}, {"v"}}

\* C23: the write of a setMeta stores the whole mapping that the call read,
\* with its own field set: every other field is left as it was read, not as
\* it is stored when the write is made, so that a field written by another
\* call between the read and the write is lost. When the stored mapping is
\* still the one read, every other stored field is kept; and in a behaviour
\* where the two calls run one after the other, never both in flight, both
\* fields are present once both have finished.
C23_SetMetaNotAtomic ==
  /\ [](\E p \in Callers : pc[p] = "idle") =>
       [](BothSetMetaDone => (store.meta.a # 0 /\ store.meta.v # 0))
  /\ [][\A p \in Callers :
       WritesMeta(p) =>
         /\ store'.meta.shape = "object"
         /\ \A f \in {"v", "a"} :
              /\ f \in op[p].arg.fields => store'.meta[f] = op[p].arg.val
              /\ f \notin op[p].arg.fields =>
                   store'.meta[f] = FieldOf(loc[p].meta, f)
              /\ (f \notin op[p].arg.fields
                    /\ FieldOf(loc[p].meta, f) = FieldOf(store.meta, f)) =>
                   store'.meta[f] = FieldOf(store.meta, f)]_vars

\* Two setMeta calls on an item with no metadata, one for the field a and
\* one for the field v, have both finished, and the stored mapping has v
\* alone: the field a that the first writer stored is lost.
C23_Witness ==
  /\ FieldOf(store0.meta, "a") = 0 /\ FieldOf(store0.meta, "v") = 0
  /\ BothSetMetaDone
  /\ store.meta.shape = "object"
  /\ store.meta.a = 0 /\ store.meta.v # 0

\* ------------------------------------------------------ concurrent migrations
\* What was stored at definition is a value of a version below the target.
ToMigrate == store0.value # Null /\ StoredVersion(store0.meta) < cfg.target

\* The storage area with the chain of s+1..t applied once to what was stored
\* at definition, and the target version recorded.
MigratedOnce ==
  [value |-> ChainKeepingOnNull(StoredVersion(store0.meta), cfg.target,
                                store0.value),
   meta |-> MetaObj(cfg.target, store0.meta.a)]

\* C24: with the definition-time migration and explicit migrate() calls
\* running in any interleaving on a stored value of a version s below the
\* target t, and no other writer, every commit writes the chain of s+1..t
\* applied once to the value stored at definition, with the version t; the
\* storage area holds nothing but the original or that; and once it holds
\* the migrated value no later commit changes it, so that no step is applied
\* to the stored value twice.
C24_MigratedExactlyOnce ==
  [][ToMigrate =>
       /\ \A p \in Procs : CommitsOk(p) => store' = MigratedOnce
       /\ store' \in {store0, MigratedOnce}
       /\ store = MigratedOnce => store' = MigratedOnce]_vars

\* The definition's migrate() and a caller's have both read the original
\* value and both committed, the caller's last: the stored value is the
\* chain applied once.
C24_Witness ==
  /\ ToMigrate
  /\ migDone /\ migLogged = "none"
  /\ last.proc \in Callers /\ last.op = "migrate" /\ last.out = "ok"
  /\ last.ran # <<>>
  /\ store = MigratedOnce
  /\ store.value # store0.value

\* ------------------------------------------------------ init and setValue
\* C25: for an item with init and no stored value at definition, once the
\* definition-time initialization and a setValue(v), the only call made on
\* the item, have both finished, the stored value is v.
C25_SetValueSurvivesInit ==
  (/\ cfg.hasInit
   /\ store0.value = Null
   /\ called = {[name |-> "setValue", arg |-> [NoArg EXCEPT !.val = 2]]}
   /\ pc[Def] = "done"
   /\ \A p \in Callers : pc[p] = "idle") =>
    store.value = 2

\* The same for a setValue(v) that is called when the definition-time
\* initialization has finished.
C25_SetValueAfterInit ==
  [][(/\ cfg.hasInit
      /\ pc[Def] = "done"
      /\ \E p \in Callers : pc[p] = "set_item" /\ pc'[p] = "idle") =>
       \E p \in Callers : store'.value = op[p].arg.val]_vars

====
